---------------------------- MODULE Spec2Model ----------------------------
(***************************************************************************)
(* A model of vecdb-rs: the database facade (src/src/vecdb.rs), the scalar *)
(* store and its id allocator (src/src/scalar.rs), the integer filter      *)
(* index (src/src/filter/index.rs), the vector index contract              *)
(* (src/src/index/flat.rs, src/src/index/hnsw.rs) and the write-ahead log  *)
(* (src/src/persistence.rs).                                               *)
(*                                                                         *)
(* Spec      : one VectorDatabase driven through its public calls; an      *)
(*             upsert is followed program point by program point.          *)
(* SpecAlloc : several threads calling ScalarStorage::gen_incr_ids on one  *)
(*             store.                                                      *)
(***************************************************************************)
EXTENDS Integers, Sequences, FiniteSets, TLC

(***************************************************************************)
(* Bounds of the model.                                                    *)
(***************************************************************************)
\* rows of one upsert: data_row ranges over 0..MaxRows
MaxRows == 2
\* calls are issued only while the id high-water-mark can stay <= MaxId
MaxId == 2
\* write_wal is called at most until the log-id counter reaches MaxLogId
MaxLogId == 1
\* the dimension the database was created with (DatabaseParams.dim)
Dim == 1
\* threads of SpecAlloc
NThreads == 2
\* gen_incr_ids calls each thread of SpecAlloc issues
MaxCalls == 2
\* RollbackGuards of SpecGuard
MaxGuards == 3

(***************************************************************************)
(* Option<T>: None is <<>>, Some(x) is <<x>>.                              *)
(***************************************************************************)
None == <<>>
Some(x) == <<x>>
IsSome(o) == o # <<>>
Unwrap(o) == o[1]

\* HashMap::new(): the map with no key
EmptyMap == <<>>

\* the larger of two numbers
Max(a, b) == IF a >= b THEN a ELSE b

(***************************************************************************)
(* serde_json::Value, as far as the facade looks into it.                  *)
(***************************************************************************)
\* Value::Number holding an integer that fits i64
JInt(n) == [t |-> "Number", repr |-> "i64", n |-> n]
\* Value::Number that as_i64() rejects: a float, or a u64 above i64::MAX
JNonI64 == [t |-> "Number", repr |-> "f64", n |-> 0]
\* Value::String
JStr(s) == [t |-> "String", s |-> s]
\* Value::Object
JObj(m) == [t |-> "Object", o |-> m]

\* Number::as_i64
as_i64(num) == IF num.repr = "i64" THEN Some(num.n) ELSE None

(***************************************************************************)
(* Byte encodings of u64 (to_be_bytes / from_be_bytes). Ids of the model   *)
(* stay below 2^31, so the four high bytes are 0.                          *)
(***************************************************************************)
RECURSIVE Pow256(_)
Pow256(p) == IF p = 0 THEN 1 ELSE 256 * Pow256(p - 1)

\* byte of weight 256^p of n
ByteAt(n, p) == IF p >= 4 THEN 0 ELSE (n \div Pow256(p)) % 256

\* u64::to_be_bytes: most significant byte first
to_be_bytes(n) == [k \in 1..8 |-> ByteAt(n, 8 - k)]

RECURSIVE FoldBytes(_, _, _)
FoldBytes(bs, k, acc) ==
    IF k > Len(bs) THEN acc ELSE FoldBytes(bs, k + 1, acc * 256 + bs[k])

\* u64::from_be_bytes
from_be_bytes(bs) == FoldBytes(bs, 1, 0)

\* KEY_ID_MAX.as_bytes(): "__id_max__"
KEY_ID_MAX == <<95, 95, 105, 100, 95, 109, 97, 120, 95, 95>>

(***************************************************************************)
(* Inputs.                                                                 *)
(***************************************************************************)
\* the documents a row may carry: null, or {"key": "v1"}
DocChoices == {None, Some([key |-> JStr("v1")])}

\* the (document, attribute map) pairs a row may carry: both null,
\* {age: 10}, {age: 20} with a document that brings its own "id" and
\* "attributes", {age: "x"}, which is no number, and {age: 1.5}, which is
\* a number and no integer
RowChoices ==
    { <<None, None>>,
      <<Some([key |-> JStr("v1")]), Some([age |-> JInt(10)])>>,
      <<Some([key |-> JStr("v1"), id |-> JInt(99), attributes |-> JStr("mine")]),
        Some([age |-> JInt(20)])>>,
      <<None, Some([age |-> JStr("x")])>>,
      <<None, Some([age |-> JNonI64])>> }

\* sequences of length n over S
SeqOfLen(S, n) == [1..n -> S]

\* VectorInsertArgs
InsertArgs(flat_data, data_row, data_dim, docs, attributes) ==
    [flat_data |-> flat_data, data_row |-> data_row, data_dim |-> data_dim,
     docs |-> docs, attributes |-> attributes]

\* the value of cur while no upsert is running
NoArgs == InsertArgs(<<>>, 0, 0, <<>>, <<>>)


(***************************************************************************)
(* State.                                                                  *)
(***************************************************************************)
VARIABLES
    kv,            \* the scalar store (RocksDB): key bytes -> value
    vector_index,  \* the vector index: the (label, vector) rows added so far
    filter_index,  \* IntFilterIndex.int_field_filters: field -> value -> bitmap
    counter,       \* Persistence.counter, the WAL log-id counter
    wal,           \* the lines of the WAL file
    pc,            \* program point of the running upsert, "idle" when none
    cur,           \* the VectorInsertArgs of the running upsert
    ids,           \* upsert's local `ids`
    row,           \* upsert's loop position, 1-based
    result,        \* what the last call returned
    hist,          \* history: what the calls so far returned
    id_mutex,      \* MultiThreadRocksDB.id_mutex: 0 when free, else its holder
    thr,           \* SpecAlloc: the position and locals of each thread
    params,        \* VectorDatabase.params: dim, metric_type, index_type
    guards,        \* SpecGuard: the RollbackGuards and what became of them
    index_mutex,   \* the Mutex around the vector index: 0 when free, else its holder
    workers,       \* SpecIndexMutex: the closures on the blocking pool
    replay,        \* SpecRecover: the position of recover_database in the WAL file
    server         \* SpecServe: the lock around the database and the HTTP handlers

dbVars == <<vector_index, filter_index, counter, wal, pc, cur, ids, row, result, hist>>
allocVars == <<id_mutex, thr>>
confVars == <<params, guards, index_mutex, workers, replay, server>>
vars == <<kv, vector_index, filter_index, counter, wal, pc, cur, ids, row, result,
          hist, id_mutex, thr, params, guards, index_mutex, workers, replay, server>>

(***************************************************************************)
(* Scalar store (src/src/scalar.rs).                                       *)
(***************************************************************************)
\* db.get(key)
Get(store, key) == IF key \in DOMAIN store THEN Some(store[key]) ELSE None

\* db.put(key, value)
Put(store, key, value) == (key :> value) @@ store

\* the u64 gen_incr_ids reads under KEY_ID_MAX: 0 when the key is absent
ReadMaxId(store) ==
    LET max_id_as_bytes == Get(store, KEY_ID_MAX)
    IN  IF IsSome(max_id_as_bytes) THEN from_be_bytes(Unwrap(max_id_as_bytes)) ELSE 0

\* (max_id + 1..new_max_id + 1).collect(): a half-open range
RangeCollect(lo, hi) == [k \in 1..Max(hi - lo, 0) |-> lo + k - 1]

\* ids from the closed range max_id..new_max_id
GenIdsFromMax(max_id, num) ==
    LET new_max_id == max_id + num
    IN  RangeCollect(max_id, new_max_id)

\* the ids gen_incr_ids returns when it read max_id
GenIds(max_id, num) ==
    LET new_max_id == max_id + num
    IN  RangeCollect(max_id + 1, new_max_id + 1)

\* gen_incr_ids that writes back the maximum it read
PutMaxIdStale(store, max_id, num) == Put(store, KEY_ID_MAX, to_be_bytes(max_id))

\* gen_incr_ids that advances the maximum by one whatever num is
PutMaxIdByOne(store, max_id, num) == Put(store, KEY_ID_MAX, to_be_bytes(max_id + 1))

\* the store after gen_incr_ids wrote the new maximum
PutMaxId(store, max_id, num) ==
    LET new_max_id == max_id + num
    IN  Put(store, KEY_ID_MAX, to_be_bytes(new_max_id))

\* a lock that never waits
MutexFreeAlways(m) == TRUE

\* id_mutex.lock() succeeds only while nobody holds the mutex
MutexFree(m) == m = 0

\* the ids that have a document: the 8-byte keys of the store
DocIds(store) == {from_be_bytes(k) : k \in {key \in DOMAIN store : Len(key) = 8}}

(***************************************************************************)
(* Filter index (src/src/filter/index.rs).                                 *)
(***************************************************************************)
\* `id as u32`: the low four bytes of the id
as_u32(id) == from_be_bytes(SubSeq(to_be_bytes(id), 5, 8))

\* an upsert that puts the id in the place of the bitmap's entries
FilterUpsertReplacing(f, field, value, id) ==
    LET filter_map_by_value == IF field \in DOMAIN f THEN f[field] ELSE EmptyMap
    IN  (field :> ((value :> {as_u32(id)}) @@ filter_map_by_value)) @@ f

\* IntFilterIndex::upsert
FilterUpsert(f, field, value, id) ==
    LET filter_map_by_value == IF field \in DOMAIN f THEN f[field] ELSE EmptyMap
        bitmap == IF value \in DOMAIN filter_map_by_value
                  THEN filter_map_by_value[value] ELSE {}
    IN  (field :> ((value :> (bitmap \cup {as_u32(id)})) @@ filter_map_by_value)) @@ f

\* IntFilterInput
IntFilterInput(field, op, target) == [field |-> field, op |-> op, target |-> target]

\* apply that intersects where the code unites
FilterApplyIntersect(f, input, bitmap) ==
    IF input.field \in DOMAIN f /\ input.target \in DOMAIN f[input.field]
    THEN bitmap \cap f[input.field][input.target]
    ELSE bitmap

\* apply whose NotEqual unites the bitmaps of every value, the target's too
FilterApplyAllValues(f, input, bitmap) ==
    IF input.field \in DOMAIN f
    THEN bitmap \cup UNION {f[input.field][v] : v \in DOMAIN f[input.field]}
    ELSE bitmap

\* the NotEqual loop of apply over the values not yet visited
RECURSIVE NotEqualLoop(_, _, _, _)
NotEqualLoop(value_to_bitmap, todo, target, res_bitmap) ==
    IF todo = {}
    THEN res_bitmap
    ELSE LET value == CHOOSE v \in todo : TRUE
         IN  IF value = target
             THEN NotEqualLoop(value_to_bitmap, todo \ {value}, target, res_bitmap)
             ELSE NotEqualLoop(value_to_bitmap, todo \ {value}, target,
                               res_bitmap \cup value_to_bitmap[value])

\* IntFilterIndex::apply
FilterApply(f, input, bitmap) ==
    IF input.op = "Equal"
    THEN LET cur_bitmap_opt ==
                 IF input.field \in DOMAIN f
                 THEN Get(f[input.field], input.target)
                 ELSE None
         IN  IF cur_bitmap_opt = None
             THEN bitmap
             ELSE bitmap \cup Unwrap(cur_bitmap_opt)
    ELSE IF input.op = "NotEqual"
    THEN LET value_to_bitmap == Get(f, input.field)
         IN  IF value_to_bitmap = None
             THEN bitmap
             ELSE NotEqualLoop(Unwrap(value_to_bitmap), DOMAIN Unwrap(value_to_bitmap),
                               input.target, bitmap)
    ELSE bitmap

\* an apply that looks the field and the target up with entry().or_default(),
\* which creates what it does not find
FilterApplyLeavesEntries(f, input) ==
    LET filter_map_by_value == IF input.field \in DOMAIN f THEN f[input.field] ELSE EmptyMap
        bitmap == IF input.target \in DOMAIN filter_map_by_value
                  THEN filter_map_by_value[input.target] ELSE {}
    IN  (input.field :> ((input.target :> bitmap) @@ filter_map_by_value)) @@ f

\* the filter index IntFilterIndex::apply leaves behind: it takes `&self` and
\* the read lock, looks up with get(), and builds its result in a clone of
\* the accumulator
FilterApplyLeaves(f, input) == f

\* every id held by some bitmap
FilterIds(f) == UNION {UNION {f[field][v] : v \in DOMAIN f[field]} : field \in DOMAIN f}

(***************************************************************************)
(* Vector index (src/src/index/flat.rs, src/src/index/hnsw.rs).            *)
(***************************************************************************)
\* Array::from_shape_vec((data_row, data_dim), flat_data): the rows
FromShapeVec(data_row, data_dim, flat_data) ==
    [r \in 1..data_row |-> [c \in 1..data_dim |-> flat_data[(r - 1) * data_dim + c]]]

\* insert that labels each row with the id after its own
IndexInsertShifted(index, data, ncols, labels, backend_ok) ==
    IF Len(data) # Len(labels) \/ ncols # Dim \/ ~backend_ok
    THEN [ok |-> FALSE, index |-> index]
    ELSE [ok |-> TRUE,
          index |-> index \o [k \in 1..Len(data) |-> [label |-> labels[k] + 1, vec |-> data[k]]]]

\* insert that leaves out the last row
IndexInsertShort(index, data, ncols, labels, backend_ok) ==
    IF Len(data) # Len(labels) \/ ncols # Dim \/ ~backend_ok
    THEN [ok |-> FALSE, index |-> index]
    ELSE [ok |-> TRUE,
          index |-> index \o [k \in 1..(Len(data) - 1) |-> [label |-> labels[k], vec |-> data[k]]]]

\* Index::insert: the new index, or the error. backend_ok is whether the
\* library accepts the rows (faiss add_with_ids).
IndexInsert(index, data, ncols, labels, backend_ok) ==
    IF Len(data) # Len(labels)
    THEN [ok |-> FALSE, index |-> index]
    ELSE IF ncols # Dim
    THEN [ok |-> FALSE, index |-> index]
    ELSE IF ~backend_ok
    THEN [ok |-> FALSE, index |-> index]
    ELSE [ok |-> TRUE,
          index |-> index \o [k \in 1..Len(data) |-> [label |-> labels[k], vec |-> data[k]]]]

\* the labels the index holds
IndexIds(index) == {index[k].label : k \in 1..Len(index)}

\* SearchQuery (index/option.rs 8-13): SearchQuery::new(vector) and the
\* options `with` sets; an IdFilter is the bitmap it wraps
SearchQuery(vector, id_filter, hnsw) ==
    [vector |-> vector, id_filter |-> id_filter, hnsw |-> hnsw]

\* The searches take the labels of the index as 64-bit values, each held as
\* its 8 big-endian bytes, so that labels of 2^32 and above exist.
\* the index with each label as its 8 bytes
U64Labels(index) ==
    [k \in 1..Len(index) |-> [label |-> to_be_bytes(index[k].label), vec |-> index[k].vec]]

\* IdFilter::filter(id): the bitmap is asked for `id as u32`, the low four
\* bytes of the id
IdFilterFilter(filter, id) == from_be_bytes(SubSeq(id, 5, 8)) \in filter

\* IdFilter::as_selector(): a batch selector over the bitmap's entries, each
\* widened to a 64-bit id (`e as u64`); the selector is asked for the label
SelectorIsMember(filter, label) == \E e \in filter : to_be_bytes(e) = label

Min(a, b) == IF a <= b THEN a ELSE b

RECURSIVE DotFrom(_, _, _)
DotFrom(a, b, i) == IF i > Len(a) THEN 0 ELSE a[i] * b[i] + DotFrom(a, b, i + 1)

\* inner product, and squared euclidean distance
Dot(a, b) == DotFrom(a, b, 1)
SqDist(a, b) == Dot(a, a) - 2 * Dot(a, b) + Dot(b, b)

\* an order that puts the farthest row first
ScoreFarthestFirst(metric_type, query, vec) ==
    IF metric_type = "L2" THEN 0 - SqDist(query, vec) ELSE Dot(query, vec)

\* what orders the rows of a search under metric_type, nearest first: the
\* squared distance for L2, the largest inner product first for IP
Score(metric_type, query, vec) ==
    IF metric_type = "L2" THEN SqDist(query, vec) ELSE 0 - Dot(query, vec)

\* the distance the flat index reports for a row
FlatDistance(metric_type, query, vec) ==
    IF metric_type = "L2" THEN SqDist(query, vec) ELSE Dot(query, vec)

\* the label (-1, all bits set) and the distance the library writes into a
\* slot it found no row for
NoLabel == [k \in 1..8 |-> 255]
NoDistance == 2147483647

\* the positions of the n nearest rows among cand, nearest first; rows at the
\* same distance come in any order
Nearest(index, metric_type, query, cand, n) ==
    {s \in [1..n -> cand] :
        /\ \A i, j \in 1..n :
            i < j => /\ s[i] # s[j]
                     /\ Score(metric_type, query, index[s[i]].vec)
                            <= Score(metric_type, query, index[s[j]].vec)
        /\ \A pos \in cand :
            (\A i \in 1..n : s[i] # pos)
                => \A i \in 1..n : Score(metric_type, query, index[s[i]].vec)
                                       <= Score(metric_type, query, index[pos].vec)}

\* faiss search / search_with_params over the rows at positions cand: k slots,
\* the rows found first, label -1 in the slots left over
FaissSearch(index, metric_type, query, k, cand) ==
    LET found == Min(k, Cardinality(cand))
    IN  {[labels |-> [i \in 1..k |-> IF i <= found THEN index[s[i]].label ELSE NoLabel],
          distances |-> [i \in 1..k |->
                            IF i <= found
                            THEN FlatDistance(metric_type, query, index[s[i]].vec)
                            ELSE NoDistance]]
         : s \in Nearest(index, metric_type, query, cand, found)}

\* a search that succeeded
Found(distances, labels) == [tag |-> "Ok", msg |-> "", distances |-> distances, labels |-> labels]

\* a conversion that keeps the invalid labels
SearchResultFromFaissKeepAll(value) == Found(value.distances, value.labels)

\* SearchResult::from(faiss::index::SearchResult): the valid labels and as
\* many distances from the front
SearchResultFromFaiss(value) ==
    LET labels == SelectSeq(value.labels, LAMBDA l : l # NoLabel)
    IN  Found(SubSeq(value.distances, 1, Len(labels)), labels)

\* a flat search that takes an empty index for an error
FlatSearchEmptyFails(index, metric_type, query, k) ==
    IF Min(k, Len(index)) = 0
    THEN {[tag |-> "UnexpectedError", msg |-> "empty index"]}
    ELSE {SearchResultFromFaiss(raw) :
            raw \in FaissSearch(index, metric_type, query.vector, Min(k, Len(index)),
                                1..Len(index))}

\* FlatIndex::search: the results the call can return
FlatSearch(index, metric_type, query, k) ==
    LET target_k == Min(k, Len(index))
    IN  IF target_k = 0
        THEN {Found(<<>>, <<>>)}
        ELSE IF IsSome(query.id_filter)
        THEN {SearchResultFromFaiss(raw) :
                raw \in FaissSearch(index, metric_type, query.vector, target_k,
                                    {pos \in 1..Len(index) :
                                        SelectorIsMember(Unwrap(query.id_filter),
                                                         index[pos].label)})}
        ELSE {SearchResultFromFaiss(raw) :
                raw \in FaissSearch(index, metric_type, query.vector, target_k,
                                    1..Len(index))}

\* SearchResult::from(Vec<Neighbour>)
SearchResultFromNeighbours(value) ==
    Found([i \in 1..Len(value) |-> value[i].distance],
          [i \in 1..Len(value) |-> value[i].d_id])

\* the distance a Neighbour carries: the euclidean distance for L2, kept as
\* the number it is the square root of, and one minus the inner product for IP
HnswDistance(metric_type, query, vec) ==
    IF metric_type = "L2" THEN [sqrt |-> SqDist(query, vec)] ELSE 1 - Dot(query, vec)

\* search_neighbours / search_filter over the rows at positions cand: the
\* graph search is approximate, it returns at most knbn of them, nearest
\* first, and which of them is not determined
HnswNeighbours(index, metric_type, query, knbn, cand) ==
    UNION {
        {[i \in 1..Cardinality(sub) |->
            [d_id |-> index[s[i]].label,
             distance |-> HnswDistance(metric_type, query, index[s[i]].vec)]]
         : s \in Nearest(index, metric_type, query, sub, Cardinality(sub))}
        : sub \in {c \in SUBSET cand : Cardinality(c) <= knbn}}

\* an HNSW search that goes ahead without the search option
HnswSearchWithoutOption(index, metric_type, query, k) ==
    {SearchResultFromNeighbours(neighbours) :
        neighbours \in HnswNeighbours(index, metric_type, query.vector, k,
                                      {pos \in 1..Len(index) :
                                          IsSome(query.id_filter)
                                              => IdFilterFilter(Unwrap(query.id_filter),
                                                                index[pos].label)})}

\* HnswIndex::search: the results the call can return
HnswSearch(index, metric_type, query, k) ==
    IF ~IsSome(query.hnsw)
    THEN {[tag |-> "QueryError", msg |-> "HNSW search option is not set"]}
    ELSE IF IsSome(query.id_filter)
    THEN {SearchResultFromNeighbours(neighbours) :
            neighbours \in HnswNeighbours(index, metric_type, query.vector, k,
                                          {pos \in 1..Len(index) :
                                              IdFilterFilter(Unwrap(query.id_filter),
                                                             index[pos].label)})}
    ELSE {SearchResultFromNeighbours(neighbours) :
            neighbours \in HnswNeighbours(index, metric_type, query.vector, k,
                                          1..Len(index))}

\* Index::search of the index new_index built for p (vecdb.rs 66-90)
IndexSearch(index, p, query, k) ==
    IF p.index_type = "Flat"
    THEN FlatSearch(index, p.metric_type, query, k)
    ELSE HnswSearch(index, p.metric_type, query, k)

(***************************************************************************)
(* Facade helpers (src/src/vecdb.rs).                                      *)
(***************************************************************************)
\* validate without its check of attributes
ValidateNoAttributes(args) ==
    IF Len(args.docs) # args.data_row
    THEN <<"docs", Len(args.docs), args.data_row>>
    ELSE IF args.data_dim * args.data_row # Len(args.flat_data)
    THEN <<"flat_data", Len(args.flat_data), args.data_dim * args.data_row>>
    ELSE <<"", 0, 0>>

\* VectorInsertArgs::validate: the mismatching field, "" when none
Validate(args) ==
    IF Len(args.docs) # args.data_row
    THEN <<"docs", Len(args.docs), args.data_row>>
    ELSE IF args.attributes # <<>> /\ Len(args.attributes) # args.data_row
    THEN <<"attributes", Len(args.attributes), args.data_row>>
    ELSE IF args.data_dim * args.data_row # Len(args.flat_data)
    THEN <<"flat_data", Len(args.flat_data), args.data_dim * args.data_row>>
    ELSE <<"", 0, 0>>

\* upsert's local `attributes`: vec![Some(HashMap::new()); data_row] when empty
FilledAttributes(args) ==
    IF args.attributes = <<>>
    THEN [k \in 1..args.data_row |-> Some(EmptyMap)]
    ELSE args.attributes

\* attr.unwrap_or_default()
AttrMapOf(args, i) ==
    LET attr == FilledAttributes(args)[i]
    IN  IF IsSome(attr) THEN Unwrap(attr) ELSE EmptyMap

\* the doc_map of row i before insert_doc
DocMapOf(args, i) ==
    LET doc == args.docs[i]
    IN  IF IsSome(doc) THEN Unwrap(doc) ELSE EmptyMap

\* a document in which the caller's "id" and "attributes" win
StoredDocCallerWins(doc, attributes, id) ==
    doc @@ (("attributes" :> JObj(attributes)) @@ ("id" :> JInt(id)))

\* insert_doc: the map that is serialized and put under the id
StoredDoc(doc, attributes, id) ==
    ("attributes" :> JObj(attributes)) @@ (("id" :> JInt(id)) @@ doc)

\* insert_doc that returns Ok although the put failed
InsertDocSwallow(store, doc, attributes, id, put_ok) ==
    IF put_ok
    THEN [ok |-> TRUE, store |-> Put(store, to_be_bytes(id), StoredDoc(doc, attributes, id))]
    ELSE [ok |-> TRUE, store |-> store]

\* insert_doc that, when the put fails, takes back the document of the row
\* before
InsertDocRollingBack(store, doc, attributes, id, put_ok) ==
    IF put_ok
    THEN [ok |-> TRUE, store |-> Put(store, to_be_bytes(id), StoredDoc(doc, attributes, id))]
    ELSE [ok |-> FALSE,
          store |-> [key \in DOMAIN store \ {to_be_bytes(id - 1)} |-> store[key]]]

\* insert_doc: the store after the put, and whether insert_doc returned Ok.
\* put_ok is whether RocksDB accepts the write.
InsertDoc(store, doc, attributes, id, put_ok) ==
    IF put_ok
    THEN [ok |-> TRUE, store |-> Put(store, to_be_bytes(id), StoredDoc(doc, attributes, id))]
    ELSE [ok |-> FALSE, store |-> store]

\* the orders a HashMap of these keys may be iterated in
Orders(S) == {o \in [1..Cardinality(S) -> S] : \A a, b \in DOMAIN o : o[a] = o[b] => a = b}

\* insert_attribute over the keys in the order `order`, from position k
RECURSIVE InsertAttributeFrom(_, _, _, _, _)
InsertAttributeFrom(f, attr, order, k, id) ==
    IF k > Len(order)
    THEN [ok |-> TRUE, filter |-> f]
    ELSE LET key == order[k]
             value == attr[key]
         IN  IF value.t = "Number"
             THEN IF IsSome(as_i64(value))
                  THEN InsertAttributeFrom(FilterUpsert(f, key, Unwrap(as_i64(value)), id),
                                           attr, order, k + 1, id)
                  ELSE InsertAttributeFrom(f, attr, order, k + 1, id)
             ELSE [ok |-> FALSE, filter |-> f]

\* insert_attribute
InsertAttribute(f, attr, order, id) == InsertAttributeFrom(f, attr, order, 1, id)

(***************************************************************************)
(* WAL (src/src/persistence.rs).                                           *)
(***************************************************************************)
\* new_persistence opens the WAL with File::open, which is read-only: a
\* write through that handle fails
WalHandleWritable == FALSE

\* WAL_ID_KEY.as_bytes(): "__wal_id__"
WAL_ID_KEY == <<95, 95, 119, 97, 108, 95, 105, 100, 95, 95>>

\* NAMESPACE_WALS of scalar.rs, the prefix of the WAL key: "wals"
NAMESPACE_WALS == <<119, 97, 108, 115>>

\* u64::from_le_bytes: least significant byte first
from_le_bytes(bs) == from_be_bytes([k \in 1..Len(bs) |-> bs[Len(bs) + 1 - k]])

\* new_persistence: the counter a database starts with
LastLogId(store) ==
    LET bytes == Get(store, NAMESPACE_WALS \o WAL_ID_KEY)
    IN  IF IsSome(bytes) THEN from_le_bytes(Unwrap(bytes)) ELSE 0

\* what a call returns: Ok(()) or an error with its kind and message
Ok == [tag |-> "Ok", msg |-> ""]
Err(tag, msg) == [tag |-> tag, msg |-> msg]
\* no call has returned yet; a call is running; the database was just opened
NoResult == [tag |-> "None", msg |-> ""]
Pending == [tag |-> "Pending", msg |-> ""]
Opened == [tag |-> "Opened", msg |-> ""]
\* apply_wal_record is running an upsert; recover_database returned Ok
Replaying == [tag |-> "Replaying", msg |-> ""]
Recovered == [tag |-> "Recovered", msg |-> ""]

(***************************************************************************)
(* Initial state: VectorDatabase::new on an empty directory.               *)
(***************************************************************************)
\* okRows: rows of the upserts that returned Ok; allOk: every upsert so far
\* returned Ok and the database was not reopened; lateFail: an upsert failed
\* after its vector insert; handedOut: the ids gen_incr_ids returned;
\* last (SpecAlloc): the ids the last gen_incr_ids call returned
NoHist ==
    [okRows |-> 0, allOk |-> TRUE, lateFail |-> FALSE, handedOut |-> {}, last |-> <<>>]

\* DatabaseParams, as far as the model looks into it
DatabaseParams(dim, metric_type, index_type) ==
    [dim |-> dim, metric_type |-> metric_type, index_type |-> index_type]

\* a thread of SpecAlloc that is in no call
IdleThread == [pc |-> "idle", num |-> 0, max_id |-> 0, calls |-> 0]

\* a guard that does not exist yet: runs counts the runs of its rollback
\* closure, commit_called and path record how it ended
NoGuard ==
    [phase |-> "none", rollback |-> None, committed |-> FALSE, runs |-> 0,
     commit_called |-> FALSE, path |-> ""]

\* a blocking-pool thread that runs no closure: op is the closure it runs,
\* pending the rows of its batch not yet in the index, seen the number of
\* rows its last search found in the index
IdleWorker == [pc |-> "idle", op |-> "", pending |-> 0, seen |-> 0]

\* a handler that serves no request: pc is where it stands, request what it
\* was asked for, seen what its query found the database doing
IdleHandler == [pc |-> "idle", request |-> "", seen |-> <<>>]

\* Arc<Mutex<VectorDatabase>> of main.rs 151-153 and the handlers: vdb is 0
\* while the lock is free, else the handler that holds it
NoServer == [vdb |-> 0, handlers |-> [t \in 1..NThreads |-> IdleHandler]]

\* recover_database has not been called: phase is where the call stands, next
\* the position in the file of the line the iterator yields next, applied
\* the records handed to apply_wal_log_record so far
NoReplay == [phase |-> "none", next |-> 1, applied |-> <<>>]

\* the state after VectorDatabase::new(.., params) on an empty directory
\* (vecdb.rs 93-123)
InitWith(p) ==
    /\ kv = EmptyMap
    /\ vector_index = <<>>
    /\ filter_index = EmptyMap
    /\ counter = LastLogId(EmptyMap)
    /\ wal = <<>>
    /\ pc = "idle"
    /\ cur = NoArgs
    /\ ids = <<>>
    /\ row = 0
    /\ result = NoResult
    /\ hist = NoHist
    /\ id_mutex = 0
    /\ thr = [t \in 1..NThreads |-> IdleThread]
    /\ params = p
    /\ guards = [g \in 1..MaxGuards |-> NoGuard]
    /\ index_mutex = 0
    /\ workers = [w \in 1..NThreads |-> IdleWorker]
    /\ replay = NoReplay
    /\ server = NoServer

Init == InitWith(DatabaseParams(Dim, "L2", "Flat"))

(***************************************************************************)
(* VectorDatabase::upsert, program point by program point.                 *)
(***************************************************************************)
\* n f32 values of flat data, all 1.0
Flat(n) == [k \in 1..n |-> 1]

\* n null entries of docs or attributes
Nulls(n) == [k \in 1..n |-> None]

\* the requests whose lengths pass validate() and whose dimension is the
\* index's: rows with attributes, and rows without
ValidArgs ==
    UNION {
        {InsertArgs(Flat(n * Dim), n, Dim, [k \in 1..n |-> rows[k][1]],
                    [k \in 1..n |-> rows[k][2]]) : rows \in SeqOfLen(RowChoices, n)}
        \cup
        {InsertArgs(Flat(n * Dim), n, Dim, docs, <<>>) : docs \in SeqOfLen(DocChoices, n)}
        : n \in 0..MaxRows}

\* requests whose lengths pass validate() and whose dimension is not the index's
WrongDimArgs ==
    {InsertArgs(Flat(n * (Dim + 1)), n, Dim + 1, Nulls(n), <<>>) : n \in 0..MaxRows}

\* requests that mismatch in one length: docs, attributes, flat_data
InvalidArgs ==
    UNION {
        { InsertArgs(Flat(n * Dim), n, Dim, Nulls(n + 1), <<>>),
          InsertArgs(Flat(n * Dim), n, Dim, Nulls(n), Nulls(n + 1)),
          InsertArgs(Flat(n * Dim + 1), n, Dim, Nulls(n), <<>>) }
        : n \in 0..MaxRows}

\* the upsert returns `res`; apply_wal_record (persistence.rs 181-184) turns
\* an error of the upsert it runs into a DataError
Return(res, h) ==
    /\ pc' = "idle"
    /\ cur' = NoArgs
    /\ ids' = <<>>
    /\ row' = 0
    /\ result' = IF result = Replaying /\ res # Ok
                 THEN Err("DataError", "Failed to apply Upsert operation")
                 ELSE res
    /\ hist' = h

\* history after an upsert that failed; late: after the vector insert
Failed(late) == [hist EXCEPT !.allOk = FALSE, !.lateFail = @ \/ late]

\* history after an upsert that succeeded
Succeeded == [hist EXCEPT !.okRows = @ + cur.data_row]

\* history after gen_incr_ids returned new_ids
HandOut(new_ids) ==
    [hist EXCEPT !.handedOut = @ \cup {new_ids[k] : k \in DOMAIN new_ids}]

\* a client calls upsert(args)
UpsertCall ==
    /\ pc = "idle"
    /\ \E args \in ValidArgs \cup WrongDimArgs \cup InvalidArgs :
        /\ ReadMaxId(kv) + args.data_row <= MaxId
        /\ cur' = args
    /\ pc' = "validate"
    /\ result' = Pending
    /\ UNCHANGED <<kv, vector_index, filter_index, counter, wal, ids, row, hist>>
    /\ UNCHANGED allocVars
    /\ UNCHANGED confVars

\* vecdb.rs 126-140
UpsertValidate ==
    /\ pc = "validate"
    /\ IF Validate(cur)[1] # ""
       THEN Return(Err("PutError", "unexpected length of field " \o Validate(cur)[1]),
                   Failed(FALSE))
       ELSE pc' = "alloc" /\ UNCHANGED <<cur, ids, row, result, hist>>
    /\ UNCHANGED <<kv, vector_index, filter_index, counter, wal>>
    /\ UNCHANGED allocVars
    /\ UNCHANGED confVars

\* vecdb.rs 142-144: gen_incr_ids under the id mutex, which nobody else holds
UpsertAlloc ==
    /\ pc = "alloc"
    /\ MutexFree(id_mutex)
    /\ \E io \in {"ok", "get_err", "put_err"} :
        LET max_id == ReadMaxId(kv)
        IN  IF io = "get_err"
            THEN Return(Err("GetError", "rocksdb"), Failed(FALSE)) /\ UNCHANGED kv
            ELSE IF io = "put_err"
            THEN Return(Err("PutError", "failed to insert new generated max id"),
                        Failed(FALSE)) /\ UNCHANGED kv
            ELSE /\ kv' = PutMaxId(kv, max_id, cur.data_row)
                 /\ ids' = GenIds(max_id, cur.data_row)
                 /\ hist' = HandOut(GenIds(max_id, cur.data_row))
                 /\ pc' = "insert"
                 /\ UNCHANGED <<cur, row, result>>
    /\ UNCHANGED <<vector_index, filter_index, counter, wal>>
    /\ UNCHANGED allocVars
    /\ UNCHANGED confVars

\* vecdb.rs 148, 178-213: insert_vectors
UpsertInsertVectors ==
    /\ pc = "insert"
    /\ \E backend_ok \in BOOLEAN :
        LET insert_data == FromShapeVec(cur.data_row, cur.data_dim, cur.flat_data)
            res == IndexInsert(vector_index, insert_data, cur.data_dim, ids, backend_ok)
        IN  IF ~res.ok
            THEN Return(Err("PutError", "unable to upsert vector data"), Failed(FALSE))
                 /\ UNCHANGED vector_index
            ELSE /\ vector_index' = res.index
                 /\ IF cur.data_row = 0
                    THEN Return(Ok, Succeeded)
                    ELSE /\ pc' = "doc"
                         /\ row' = 1
                         /\ UNCHANGED <<cur, ids, result, hist>>
    /\ UNCHANGED <<kv, filter_index, counter, wal>>
    /\ UNCHANGED allocVars
    /\ UNCHANGED confVars

\* the loop of vecdb.rs 155-173 moves to the next row, or the upsert returns
NextRow ==
    IF row = cur.data_row
    THEN Return(Ok, Succeeded)
    ELSE pc' = "doc" /\ row' = row + 1 /\ UNCHANGED <<cur, ids, result, hist>>

\* vecdb.rs 168, 215-245: insert_doc of the current row
UpsertInsertDoc ==
    /\ pc = "doc"
    /\ \E put_ok \in BOOLEAN :
        LET attr_map == AttrMapOf(cur, row)
            res == InsertDoc(kv, DocMapOf(cur, row), attr_map, ids[row], put_ok)
        IN  /\ kv' = res.store
            /\ IF ~res.ok
               THEN Return(Err("PutError", "unable to upsert scalar data"), Failed(TRUE))
               ELSE IF attr_map # EmptyMap
               THEN pc' = "attr" /\ UNCHANGED <<cur, ids, row, result, hist>>
               ELSE NextRow
    /\ UNCHANGED <<vector_index, filter_index, counter, wal>>
    /\ UNCHANGED allocVars
    /\ UNCHANGED confVars

\* vecdb.rs 170-172, 247-268: insert_attribute of the current row
UpsertInsertAttribute ==
    /\ pc = "attr"
    /\ \E order \in Orders(DOMAIN AttrMapOf(cur, row)) :
        LET res == InsertAttribute(filter_index, AttrMapOf(cur, row), order, ids[row])
        IN  /\ filter_index' = res.filter
            /\ IF res.ok
               THEN NextRow
               ELSE Return(Err("PutError", "unsupported attribute type for key"), Failed(TRUE))
    /\ UNCHANGED <<kv, vector_index, counter, wal>>
    /\ UNCHANGED allocVars
    /\ UNCHANGED confVars

(***************************************************************************)
(* Persistence::write_wal, called on its own: the facade never calls it.   *)
(***************************************************************************)
WriteWal ==
    /\ pc = "idle"
    /\ counter < MaxLogId
    /\ \E operation_type \in {"Upsert", "Delete"}, data \in {NoArgs} :
        LET record == [log_id |-> counter, operation |-> operation_type, data |-> data]
        IN  /\ counter' = counter + 1
            /\ IF WalHandleWritable
               THEN wal' = Append(wal, record) /\ result' = Ok
               ELSE wal' = wal /\ result' = Err("FileError", "Failed to write operation")
    /\ UNCHANGED <<kv, vector_index, filter_index, pc, cur, ids, row, hist>>
    /\ UNCHANGED allocVars
    /\ UNCHANGED confVars

(***************************************************************************)
(* The process ends at any point and the database is opened again on the   *)
(* same directory: VectorDatabase::new.                                    *)
(***************************************************************************)
Reopen ==
    /\ vector_index' = <<>>
    /\ filter_index' = EmptyMap
    /\ counter' = LastLogId(kv)
    /\ pc' = "idle"
    /\ cur' = NoArgs
    /\ ids' = <<>>
    /\ row' = 0
    /\ result' = Opened
    /\ hist' = [hist EXCEPT !.allOk = FALSE]
    /\ UNCHANGED <<kv, wal>>
    /\ UNCHANGED allocVars
    /\ UNCHANGED confVars

(***************************************************************************)
(* Recovery: VectorDatabase::recover_database (vecdb.rs 336-377) and       *)
(* apply_wal_record (persistence.rs 171-193).                              *)
(***************************************************************************)
\* apply_wal_log_record: every arm of its match is empty
ApplyWalLogRecord(mem, record) == mem

\* the loop of recover_database over the records of the WAL file, from
\* position k: the vector index and the filter index it leaves
RECURSIVE ReplayWalFrom(_, _, _)
ReplayWalFrom(mem, lines, k) ==
    IF k > Len(lines)
    THEN mem
    ELSE ReplayWalFrom(ApplyWalLogRecord(mem, lines[k]), lines, k + 1)

\* recover_database on a database whose memory is mem
ReplayWal(mem, lines) == ReplayWalFrom(mem, lines, 1)

\* the memory of a database that VectorDatabase::new just built
FreshMem == <<<<>>, EmptyMap>>

\* recover_database is called between two requests
RecoverDatabase ==
    /\ pc = "idle"
    /\ LET mem == ReplayWal(<<vector_index, filter_index>>, wal)
       IN  /\ vector_index' = mem[1]
           /\ filter_index' = mem[2]
    /\ result' = Recovered
    /\ UNCHANGED <<kv, counter, wal, pc, cur, ids, row, hist>>
    /\ UNCHANGED allocVars
    /\ UNCHANGED confVars

\* the records apply_wal_record is handed: an Upsert of one row, or a Delete
WalRecords ==
    {[log_id |-> 0, operation |-> "Upsert", data |-> args] :
        args \in {a \in ValidArgs : a.data_row = 1 /\ a.attributes # <<>>}}
    \cup {[log_id |-> 0, operation |-> "Delete", data |-> NoArgs]}

\* apply_wal_record(record, vec_db): an Upsert record runs
\* VectorDatabase::upsert on its payload, a Delete record panics
ApplyWalRecord ==
    /\ pc = "idle"
    /\ \E record \in WalRecords :
        IF record.operation = "Upsert"
        THEN /\ ReadMaxId(kv) + record.data.data_row <= MaxId
             /\ cur' = record.data
             /\ pc' = "validate"
             /\ result' = Replaying
        ELSE /\ result' = Err("Panic", "Delete operation is not supported in this context")
             /\ UNCHANGED <<pc, cur>>
    /\ UNCHANGED <<kv, vector_index, filter_index, counter, wal, ids, row, hist>>
    /\ UNCHANGED allocVars
    /\ UNCHANGED confVars

(***************************************************************************)
(* SpecFilter: the filter index driven through its own calls               *)
(* (filter/index.rs 32-82).                                                *)
(***************************************************************************)
\* the attribute names, the values and the targets the calls carry
FilterFields == {"age", "n"}
FilterValues == {10, 20}
FilterTargets == FilterValues \cup {30}

\* the accumulators apply is handed
Accumulators == {{}, {1}, {MaxId}}

\* IntFilterIndex::upsert(field, value, id)
FilterUpsertCall ==
    /\ \E field \in FilterFields, value \in FilterValues, id \in 1..MaxId :
        filter_index' = FilterUpsert(filter_index, field, value, id)
    /\ result' = Ok
    /\ UNCHANGED <<kv, vector_index, counter, wal, pc, cur, ids, row, hist>>
    /\ UNCHANGED allocVars
    /\ UNCHANGED confVars

\* IntFilterIndex::apply(input, bitmap): the call and the bitmap it returns
FilterApplyCall ==
    /\ \E field \in FilterFields, op \in {"Equal", "NotEqual"}, target \in FilterTargets,
          bitmap \in Accumulators :
        LET input == IntFilterInput(field, op, target)
        IN  result' = [tag |-> "Applied", msg |-> "", input |-> input, acc |-> bitmap,
                       out |-> FilterApply(filter_index, input, bitmap)]
    /\ UNCHANGED <<kv, vector_index, filter_index, counter, wal, pc, cur, ids, row, hist>>
    /\ UNCHANGED allocVars
    /\ UNCHANGED confVars

NextFilter ==
    \/ FilterUpsertCall
    \/ FilterApplyCall

SpecFilter == Init /\ [][NextFilter]_vars

(***************************************************************************)
(* SpecAlloc: threads calling MultiThreadRocksDB::gen_incr_ids             *)
(* (scalar.rs 102-140) on one store.                                       *)
(***************************************************************************)
\* thread t calls gen_incr_ids(num)
AllocCall(t) ==
    /\ thr[t].pc = "idle"
    /\ thr[t].calls < MaxCalls
    /\ \E num \in 0..MaxRows :
        thr' = [thr EXCEPT ![t] = [pc |-> "lock", num |-> num, max_id |-> 0,
                                   calls |-> thr[t].calls + 1]]
    /\ UNCHANGED <<kv, id_mutex>>
    /\ UNCHANGED dbVars
    /\ UNCHANGED confVars

\* scalar.rs 103-106: the thread takes the id mutex
AllocLock(t) ==
    /\ thr[t].pc = "lock"
    /\ MutexFree(id_mutex)
    /\ id_mutex' = t
    /\ thr' = [thr EXCEPT ![t].pc = "get"]
    /\ UNCHANGED kv
    /\ UNCHANGED dbVars
    /\ UNCHANGED confVars

\* the guard is dropped when the function returns
Unlock(t) == id_mutex' = IF id_mutex = t THEN 0 ELSE id_mutex

\* scalar.rs 120-130: the thread reads the maximum, or the read fails
AllocGet(t) ==
    /\ thr[t].pc = "get"
    /\ \E get_ok \in BOOLEAN :
        IF get_ok
        THEN /\ thr' = [thr EXCEPT ![t].pc = "put", ![t].max_id = ReadMaxId(kv)]
             /\ UNCHANGED <<id_mutex, result>>
        ELSE /\ thr' = [thr EXCEPT ![t] = [IdleThread EXCEPT !.calls = thr[t].calls]]
             /\ Unlock(t)
             /\ result' = Err("GetError", "rocksdb")
    /\ UNCHANGED kv
    /\ UNCHANGED <<vector_index, filter_index, counter, wal, pc, cur, ids, row, hist>>
    /\ UNCHANGED confVars

\* scalar.rs 132-139: the thread writes the new maximum and returns the ids,
\* or the write fails
AllocPut(t) ==
    /\ thr[t].pc = "put"
    /\ \E put_ok \in BOOLEAN :
        IF put_ok
        THEN /\ kv' = PutMaxId(kv, thr[t].max_id, thr[t].num)
             /\ hist' = [HandOut(GenIds(thr[t].max_id, thr[t].num))
                            EXCEPT !.last = GenIds(thr[t].max_id, thr[t].num)]
             /\ result' = Ok
        ELSE /\ UNCHANGED <<kv, hist>>
             /\ result' = Err("PutError", "failed to insert new generated max id")
    /\ thr' = [thr EXCEPT ![t] = [IdleThread EXCEPT !.calls = thr[t].calls]]
    /\ Unlock(t)
    /\ UNCHANGED <<vector_index, filter_index, counter, wal, pc, cur, ids, row>>
    /\ UNCHANGED confVars

NextAlloc ==
    \E t \in 1..NThreads :
        \/ AllocCall(t)
        \/ AllocLock(t)
        \/ AllocGet(t)
        \/ AllocPut(t)

SpecAlloc == Init /\ [][NextAlloc]_vars

Next ==
    \/ UpsertCall
    \/ UpsertValidate
    \/ UpsertAlloc
    \/ UpsertInsertVectors
    \/ UpsertInsertDoc
    \/ UpsertInsertAttribute
    \/ WriteWal
    \/ Reopen

Spec == Init /\ [][Next]_vars

\* one database with its recovery entry points
NextReplay ==
    \/ Next
    \/ RecoverDatabase
    \/ ApplyWalRecord

SpecReplay == Init /\ [][NextReplay]_vars

(***************************************************************************)
(* SpecRecover: VectorDatabase::recover_database (vecdb.rs 336-363) on a   *)
(* database opened on a directory whose WAL file holds any lines, read     *)
(* through WALRecordIter (persistence.rs 47-78), line by line.             *)
(***************************************************************************)
\* a line of the file: text "record" when it is the JSON of a WALRecord,
\* "garbage" when it does not deserialize, "unreadable" when reading the
\* line fails (bytes that are not UTF-8, an I/O error)
WalLine(text, log_id, operation) ==
    [text |-> text, log_id |-> log_id, operation |-> operation]

\* the files: up to MaxLogId + 2 lines, the record at position k carrying
\* log_id k - 1
WalFiles ==
    UNION {{[k \in 1..n |-> WalLine(kinds[k][1], k - 1, kinds[k][2])] :
                kinds \in SeqOfLen({<<"record", "Upsert">>, <<"record", "Delete">>,
                                    <<"garbage", "">>, <<"unreadable", "">>}, n)}
           : n \in 0..(MaxLogId + 2)}

\* WALRecord::try_from(line)
WALRecordTryFrom(line) ==
    IF line.text = "record"
    THEN [ok |-> TRUE, msg |-> "",
          record |-> [log_id |-> line.log_id, operation |-> line.operation, data |-> NoArgs]]
    ELSE [ok |-> FALSE, msg |-> "Failed to deserialize WAL log record", record |-> NoArgs]

\* an iterator that passes over the lines it cannot turn into a record
WALRecordIterNextSkipping(lines, next) ==
    LET good == {k \in next..Len(lines) : lines[k].text = "record"}
    IN  IF good = {}
        THEN [item |-> None, next |-> Len(lines) + 1]
        ELSE LET k == CHOOSE g \in good : \A h \in good : g <= h
             IN  [item |-> Some(WALRecordTryFrom(lines[k])), next |-> k + 1]

\* WALRecordIter::next with the iterator before line `next`: the item it
\* yields and the position it moves to
WALRecordIterNext(lines, next) ==
    IF next > Len(lines)
    THEN [item |-> None, next |-> next]
    ELSE [item |-> Some(IF lines[next].text = "unreadable"
                        THEN [ok |-> FALSE, msg |-> "Failed to read line from WAL log file",
                              record |-> NoArgs]
                        ELSE WALRecordTryFrom(lines[next])),
          next |-> next + 1]

\* VectorDatabase::new on a directory whose WAL file holds the lines
InitRecover ==
    /\ \E lines \in WalFiles : wal = lines
    /\ kv = EmptyMap
    /\ vector_index = <<>>
    /\ filter_index = EmptyMap
    /\ counter = LastLogId(EmptyMap)
    /\ pc = "idle"
    /\ cur = NoArgs
    /\ ids = <<>>
    /\ row = 0
    /\ result = NoResult
    /\ hist = NoHist
    /\ id_mutex = 0
    /\ thr = [t \in 1..NThreads |-> IdleThread]
    /\ params = DatabaseParams(Dim, "L2", "Flat")
    /\ guards = [g \in 1..MaxGuards |-> NoGuard]
    /\ index_mutex = 0
    /\ workers = [w \in 1..NThreads |-> IdleWorker]
    /\ replay = NoReplay
    /\ server = NoServer

\* recover_database is called and asks for the iterator (vecdb.rs 342-345);
\* opening the file may fail
RecoverCall ==
    /\ pc = "idle"
    /\ replay.phase = "none"
    /\ \E open_ok \in BOOLEAN :
        IF open_ok
        THEN /\ replay' = [replay EXCEPT !.phase = "loop"]
             /\ result' = Pending
        ELSE /\ replay' = [replay EXCEPT !.phase = "done"]
             /\ result' = Err("CreateError", "Failed to get WAL log iterator")
    /\ UNCHANGED <<kv, vector_index, filter_index, counter, wal, pc, cur, ids, row, hist>>
    /\ UNCHANGED allocVars
    /\ UNCHANGED <<params, guards, index_mutex, workers, server>>

\* one turn of the loop of vecdb.rs 346-360: the iterator yields nothing and
\* the call returns Ok, or a record and it is applied, or an error and the
\* call returns it
RecoverNext ==
    /\ replay.phase = "loop"
    /\ LET it == WALRecordIterNext(wal, replay.next)
       IN  IF ~IsSome(it.item)
           THEN /\ replay' = [replay EXCEPT !.phase = "done", !.next = it.next]
                /\ result' = Recovered
                /\ UNCHANGED <<vector_index, filter_index>>
           ELSE IF Unwrap(it.item).ok
           THEN LET record == Unwrap(it.item).record
                    mem == ApplyWalLogRecord(<<vector_index, filter_index>>, record)
                IN  /\ vector_index' = mem[1]
                    /\ filter_index' = mem[2]
                    /\ replay' = [replay EXCEPT !.next = it.next,
                                                !.applied = Append(@, record)]
                    /\ UNCHANGED result
           ELSE /\ replay' = [replay EXCEPT !.phase = "done", !.next = it.next]
                /\ result' = Err("CreateError", "Failed to read WAL log record")
                /\ UNCHANGED <<vector_index, filter_index>>
    /\ UNCHANGED <<kv, counter, wal, pc, cur, ids, row, hist>>
    /\ UNCHANGED allocVars
    /\ UNCHANGED <<params, guards, index_mutex, workers, server>>

NextRecover ==
    \/ RecoverCall
    \/ RecoverNext

SpecRecover == InitRecover /\ [][NextRecover]_vars

(***************************************************************************)
(* SpecCancel: the caller may drop the future of a running upsert while it *)
(* awaits a blocking step (vecdb.rs 188-210, 230-243).                     *)
(***************************************************************************)
\* what is left of a call whose future was dropped
Dropped == [tag |-> "Dropped", msg |-> ""]

\* The future is dropped while it awaits the join handle of spawn_blocking:
\* the closure already handed to the blocking pool runs to its end, the index
\* insert at vecdb.rs 188-200 or the put of the current row at 230-236, and
\* nothing after the await is executed.
DropTask ==
    /\ pc \in {"insert", "doc"}
    /\ IF pc = "insert"
       THEN /\ \E backend_ok \in BOOLEAN :
                vector_index' = IndexInsert(vector_index,
                                            FromShapeVec(cur.data_row, cur.data_dim,
                                                         cur.flat_data),
                                            cur.data_dim, ids, backend_ok).index
            /\ kv' = kv
       ELSE /\ \E put_ok \in BOOLEAN :
                kv' = InsertDoc(kv, DocMapOf(cur, row), AttrMapOf(cur, row), ids[row],
                                put_ok).store
            /\ vector_index' = vector_index
    /\ Return(Dropped, hist)
    /\ UNCHANGED <<filter_index, counter, wal>>
    /\ UNCHANGED allocVars
    /\ UNCHANGED confVars

NextCancel ==
    \/ Next
    \/ DropTask

SpecCancel == Init /\ [][NextCancel]_vars

(***************************************************************************)
(* SpecIndexMutex: the closures that insert_vectors and query hand to the  *)
(* blocking pool, running on NThreads threads (vecdb.rs 188-200, 300-305). *)
(* Closures of different calls can run together: a closure outlives the    *)
(* call whose future was dropped.                                          *)
(***************************************************************************)
\* a lock that is always granted
IndexLockFreeAlways(mutex) == TRUE

\* vector_index.lock(): granted when nobody holds the mutex
IndexLockFree(mutex) == mutex = 0

\* the rows in the index and in the batches not yet applied in full
RowsInFlight ==
    LET RECURSIVE Sum(_)
        Sum(w) == IF w = 0 THEN 0 ELSE workers[w].pending + Sum(w - 1)
    IN  Len(vector_index) + Sum(NThreads)

\* spawn_blocking: a thread of the pool takes the closure of an insert of n
\* rows, or of a search
WorkerStart ==
    /\ \E w \in 1..NThreads :
        /\ workers[w].pc = "idle"
        /\ \/ \E n \in 1..MaxRows :
                /\ RowsInFlight + n <= MaxId
                /\ workers' = [workers EXCEPT ![w] = [@ EXCEPT !.pc = "lock",
                                                               !.op = "insert",
                                                               !.pending = n]]
           \/ workers' = [workers EXCEPT ![w] = [@ EXCEPT !.pc = "lock", !.op = "search"]]
    /\ UNCHANGED <<kv, vector_index, filter_index, counter, wal, pc, cur, ids, row, result,
                   hist, replay, server, params, guards, index_mutex>>
    /\ UNCHANGED allocVars

\* .lock().unwrap(): the guard lives to the end of the statement that calls
\* insert or search on it
WorkerLock ==
    /\ \E w \in 1..NThreads :
        /\ workers[w].pc = "lock"
        /\ IndexLockFree(index_mutex)
        /\ index_mutex' = w
        /\ workers' = [workers EXCEPT ![w] = [@ EXCEPT !.pc = workers[w].op]]
    /\ UNCHANGED <<kv, vector_index, filter_index, counter, wal, pc, cur, ids, row, result,
                   hist, replay, server, params, guards>>
    /\ UNCHANGED allocVars

\* Index::insert adds the next row of the batch (hnsw.rs 187-189)
WorkerInsertRow ==
    /\ \E w \in 1..NThreads :
        /\ workers[w].pc = "insert"
        /\ workers[w].pending > 0
        /\ vector_index' = Append(vector_index,
                                  [label |-> Len(vector_index) + 1, vec |-> Flat(Dim)])
        /\ workers' = [workers EXCEPT ![w] = [@ EXCEPT !.pending = @ - 1]]
    /\ UNCHANGED <<kv, filter_index, counter, wal, pc, cur, ids, row, result,
                   hist, replay, server, params, guards, index_mutex>>
    /\ UNCHANGED allocVars

\* Index::search reads the index
WorkerSearch ==
    /\ \E w \in 1..NThreads :
        /\ workers[w].pc = "search"
        /\ workers' = [workers EXCEPT ![w] = [@ EXCEPT !.pc = "searched",
                                                       !.seen = Len(vector_index)]]
    /\ UNCHANGED <<kv, vector_index, filter_index, counter, wal, pc, cur, ids, row, result,
                   hist, replay, server, params, guards, index_mutex>>
    /\ UNCHANGED allocVars

\* insert or search returned: the statement ends, the guard is dropped
WorkerUnlock ==
    /\ \E w \in 1..NThreads :
        /\ \/ workers[w].pc = "insert" /\ workers[w].pending = 0
           \/ workers[w].pc = "searched"
        /\ index_mutex' = 0
        /\ workers' = [workers EXCEPT ![w] = [@ EXCEPT !.pc = "idle", !.op = ""]]
    /\ UNCHANGED <<kv, vector_index, filter_index, counter, wal, pc, cur, ids, row, result,
                   hist, replay, server, params, guards>>
    /\ UNCHANGED allocVars

NextIndexMutex ==
    \/ WorkerStart
    \/ WorkerLock
    \/ WorkerInsertRow
    \/ WorkerSearch
    \/ WorkerUnlock

SpecIndexMutex == Init /\ [][NextIndexMutex]_vars

(***************************************************************************)
(* SpecGuard: RollbackGuards created, committed and dropped                *)
(* (persistence.rs 222-249).                                               *)
(***************************************************************************)
\* a commit that marks nothing
CommitMarksNothing(guard) == guard

\* RollbackGuard::commit, the two assignments
Commit(guard) == [guard EXCEPT !.committed = TRUE, !.rollback = None]

\* Drop::drop: the guard after it, the closure taken out and run if the guard
\* is not committed and still holds it
Drop(guard) ==
    IF ~guard.committed
    THEN IF IsSome(guard.rollback)
         THEN [guard EXCEPT !.rollback = None, !.runs = @ + 1]
         ELSE guard
    ELSE guard

\* RollbackGuard::new(rollback)
GuardNew ==
    /\ \E g \in 1..MaxGuards :
        /\ guards[g].phase = "none"
        /\ guards' = [guards EXCEPT ![g] = [NoGuard EXCEPT !.phase = "live",
                                                           !.rollback = Some("rollback")]]
    /\ UNCHANGED <<kv, vector_index, filter_index, counter, wal, pc, cur, ids, row, result,
                   hist, replay, server, params, index_mutex, workers>>
    /\ UNCHANGED allocVars

\* guard.commit(): commit takes the guard by value, so the guard is dropped
\* when commit returns
GuardCommit ==
    /\ \E g \in 1..MaxGuards :
        /\ guards[g].phase = "live"
        /\ guards' = [guards EXCEPT ![g] = [Drop(Commit(guards[g])) EXCEPT
                                                !.phase = "dropped",
                                                !.commit_called = TRUE,
                                                !.path = "commit"]]
    /\ UNCHANGED <<kv, vector_index, filter_index, counter, wal, pc, cur, ids, row, result,
                   hist, replay, server, params, index_mutex, workers>>
    /\ UNCHANGED allocVars

\* the guard goes out of scope without commit: at the end of its block, at an
\* early return, or when an error or a panic unwinds the block
GuardDrop ==
    /\ \E g \in 1..MaxGuards, path \in {"end of block", "early return", "error"} :
        /\ guards[g].phase = "live"
        /\ guards' = [guards EXCEPT ![g] = [Drop(guards[g]) EXCEPT !.phase = "dropped",
                                                                   !.path = path]]
    /\ UNCHANGED <<kv, vector_index, filter_index, counter, wal, pc, cur, ids, row, result,
                   hist, replay, server, params, index_mutex, workers>>
    /\ UNCHANGED allocVars

NextGuard ==
    \/ GuardNew
    \/ GuardCommit
    \/ GuardDrop

SpecGuard == Init /\ [][NextGuard]_vars

(***************************************************************************)
(* SpecIndex: one vector index of either kind driven through Index::insert *)
(* and Index::search (index/flat.rs, index/hnsw.rs).                       *)
(***************************************************************************)
\* the parameters a database is created with
ParamChoices ==
    {DatabaseParams(Dim, metric_type, index_type) :
        metric_type \in {"L2", "IP"}, index_type \in {"Flat", "Hnsw"}}

InitIndex == \E p \in ParamChoices : InitWith(p)

\* the labels rows are inserted under: small ones, and 2^32 + 1, past the 32
\* bits of a bitmap entry
IndexLabels == {to_be_bytes(1), to_be_bytes(MaxId), <<0, 0, 0, 1, 0, 0, 0, 1>>}

\* the vectors inserted and searched for
IndexVectors == {[c \in 1..Dim |-> 0], [c \in 1..Dim |-> 1]}

\* the id filters and the HNSW options a search query carries
IdFilters == {None, Some({}), Some({1}), Some({1, MaxId})}
HnswOptions == {None, Some([ef_search |-> 200])}

\* Index::insert of one row; the HNSW insert has no library error
IndexInsertCall ==
    /\ Len(vector_index) < MaxId
    /\ \E label \in IndexLabels, vec \in IndexVectors,
          backend_ok \in IF params.index_type = "Flat" THEN BOOLEAN ELSE {TRUE} :
        LET res == IndexInsert(vector_index, <<vec>>, Dim, <<label>>, backend_ok)
        IN  /\ vector_index' = res.index
            /\ result' = IF res.ok THEN Ok ELSE Err("InsertionError", "")
    /\ UNCHANGED <<kv, filter_index, counter, wal, pc, cur, ids, row, hist>>
    /\ UNCHANGED allocVars
    /\ UNCHANGED confVars

\* Index::search(query, k): the call and what it returns. A search leaves
\* the index as it is, so a search issued after another reaches nothing the
\* first does not: each index content is searched from the state its last
\* insert left.
IndexSearchCall ==
    /\ "query" \notin DOMAIN result
    /\ \E vector \in IndexVectors, k \in 0..(MaxId + 1), id_filter \in IdFilters,
          hnsw \in HnswOptions :
        LET query == SearchQuery(vector, id_filter, hnsw)
        IN  \E res \in IndexSearch(vector_index, params, query, k) :
                result' = res @@ [query |-> query, k |-> k]
    /\ UNCHANGED <<kv, vector_index, filter_index, counter, wal, pc, cur, ids, row, hist>>
    /\ UNCHANGED allocVars
    /\ UNCHANGED confVars

NextIndex ==
    \/ IndexInsertCall
    \/ IndexSearchCall

SpecIndex == InitIndex /\ [][NextIndex]_vars

(***************************************************************************)
(* SpecIdFilter: an IdFilter driven through add and filter with 64-bit     *)
(* ids (filter/mod.rs 13-36). Ids are held as their 8 big-endian bytes.    *)
(***************************************************************************)
\* the ids the calls carry: small ones, and ids past the 32 bits of a bitmap
\* entry, 2^32 + 1 and 2^32 + MaxId
Ids64 ==
    {to_be_bytes(1), to_be_bytes(MaxId),
     <<0, 0, 0, 1>> \o SubSeq(to_be_bytes(1), 5, 8),
     <<0, 0, 0, 1>> \o SubSeq(to_be_bytes(MaxId), 5, 8)}

\* IdFilter::add(id): the bitmap takes `id as u32`, the low four bytes
IdFilterAdd(filter, id) == filter \cup {from_be_bytes(SubSeq(id, 5, 8))}

\* IdFilter::new(): cur holds the filter, its bitmap and the ids added to it
InitIdFilter ==
    /\ cur = [bitmap |-> {}, added |-> {}]
    /\ kv = EmptyMap
    /\ vector_index = <<>>
    /\ filter_index = EmptyMap
    /\ counter = 0
    /\ wal = <<>>
    /\ pc = "idle"
    /\ ids = <<>>
    /\ row = 0
    /\ result = NoResult
    /\ hist = NoHist
    /\ id_mutex = 0
    /\ thr = [t \in 1..NThreads |-> IdleThread]
    /\ params = DatabaseParams(Dim, "L2", "Flat")
    /\ guards = [g \in 1..MaxGuards |-> NoGuard]
    /\ index_mutex = 0
    /\ workers = [w \in 1..NThreads |-> IdleWorker]
    /\ replay = NoReplay
    /\ server = NoServer

\* filter.add(id), which returns nothing
IdFilterAddCall ==
    /\ \E id \in Ids64 :
        cur' = [bitmap |-> IdFilterAdd(cur.bitmap, id), added |-> cur.added \cup {id}]
    /\ UNCHANGED <<kv, vector_index, filter_index, counter, wal, pc, ids, row, result, hist>>
    /\ UNCHANGED allocVars
    /\ UNCHANGED confVars

\* filter.filter(&id): what it returns, with the ids added before the call
IdFilterFilterCall ==
    /\ \E id \in Ids64 :
        result' = [tag |-> "Ok", msg |-> "", id |-> id, added |-> cur.added,
                   contains |-> IdFilterFilter(cur.bitmap, id)]
    /\ UNCHANGED <<kv, vector_index, filter_index, counter, wal, pc, cur, ids, row, hist>>
    /\ UNCHANGED allocVars
    /\ UNCHANGED confVars

NextIdFilter ==
    \/ IdFilterAddCall
    \/ IdFilterFilterCall

SpecIdFilter == InitIdFilter /\ [][NextIdFilter]_vars

(***************************************************************************)
(* SpecConvert: SearchResult::from applied to the raw results of the exact *)
(* search library (src/src/index/mod.rs).                                  *)
(***************************************************************************)
\* the labels and distances of a raw result: row labels and the invalid
\* label, distances of rows and the distance of an empty slot
RawLabels == {to_be_bytes(1), to_be_bytes(MaxId), NoLabel}
RawDistances == {0, 1, NoDistance}

\* a raw result: nq * k labels and as many distances, in slot order
RawResults ==
    UNION {{[labels |-> labels, distances |-> distances] :
                labels \in SeqOfLen(RawLabels, n), distances \in SeqOfLen(RawDistances, n)}
           : n \in 0..(MaxId + 1)}

\* a raw result the library has returned, held in cur until it is converted
InitConvert ==
    /\ \E raw \in RawResults : cur = raw
    /\ kv = EmptyMap
    /\ vector_index = <<>>
    /\ filter_index = EmptyMap
    /\ counter = 0
    /\ wal = <<>>
    /\ pc = "idle"
    /\ ids = <<>>
    /\ row = 0
    /\ result = NoResult
    /\ hist = NoHist
    /\ id_mutex = 0
    /\ thr = [t \in 1..NThreads |-> IdleThread]
    /\ params = DatabaseParams(Dim, "L2", "Flat")
    /\ guards = [g \in 1..MaxGuards |-> NoGuard]
    /\ index_mutex = 0
    /\ workers = [w \in 1..NThreads |-> IdleWorker]
    /\ replay = NoReplay
    /\ server = NoServer

\* .map(SearchResult::from) on the raw result
FromFaissCall ==
    /\ result = NoResult
    /\ result' = SearchResultFromFaiss(cur)
    /\ UNCHANGED <<kv, vector_index, filter_index, counter, wal, pc, cur, ids, row, hist>>
    /\ UNCHANGED allocVars
    /\ UNCHANGED confVars

NextConvert == FromFaissCall

SpecConvert == InitConvert /\ [][NextConvert]_vars

(***************************************************************************)
(* SpecQuery: one database of either index kind, upserts and queries       *)
(* (vecdb.rs 125-176, 270-334).                                            *)
(***************************************************************************)
\* VectorSearchArgs
VectorSearchArgs(query, k, filter_inputs, hnsw_params) ==
    [query |-> query, k |-> k, filter_inputs |-> filter_inputs, hnsw_params |-> hnsw_params]

\* a fold that hands every predicate an empty accumulator: the last one wins
ApplyFromFresh(f, filter_inputs, i, bitmap) ==
    IF i > Len(filter_inputs) THEN bitmap
    ELSE FilterApply(f, filter_inputs[Len(filter_inputs)], {})

RECURSIVE ApplyFrom(_, _, _, _)
ApplyFrom(f, filter_inputs, i, bitmap) ==
    IF i > Len(filter_inputs) THEN bitmap
    ELSE ApplyFrom(f, filter_inputs, i + 1, FilterApply(f, filter_inputs[i], bitmap))

\* a query that builds an id filter from every list that is present, the
\* empty one too
QueryIdFilterOfAnyList(f, filter_inputs) ==
    IF IsSome(filter_inputs)
    THEN Some(ApplyFrom(f, Unwrap(filter_inputs), 1, {}))
    ELSE None

\* a query that takes a filter list selecting no id for no filter at all
QueryIdFilterDropsEmpty(f, filter_inputs) ==
    IF IsSome(filter_inputs) /\ Len(Unwrap(filter_inputs)) > 0
          /\ ApplyFrom(f, Unwrap(filter_inputs), 1, {}) # {}
    THEN Some(ApplyFrom(f, Unwrap(filter_inputs), 1, {}))
    ELSE None

\* vecdb.rs 285-296: the id filter of the query, if it gets one: the
\* predicates applied in turn, starting from an empty bitmap
QueryIdFilter(f, filter_inputs) ==
    IF IsSome(filter_inputs) /\ Len(Unwrap(filter_inputs)) > 0
    THEN Some(ApplyFrom(f, Unwrap(filter_inputs), 1, {}))
    ELSE None

\* the filter index after the predicates from position i on were applied
RECURSIVE LeavesFrom(_, _, _)
LeavesFrom(f, filter_inputs, i) ==
    IF i > Len(filter_inputs) THEN f
    ELSE LeavesFrom(FilterApplyLeaves(f, filter_inputs[i]), filter_inputs, i + 1)

\* the filter index VectorDatabase::query leaves behind: the length check
\* returns before the filters are looked at (vecdb.rs 273-279), the loop of
\* 288-292 calls apply once for each predicate of a non-empty list
QueryLeaves(f, p, search_args) ==
    IF Len(search_args.query) # p.dim
    THEN f
    ELSE IF IsSome(search_args.filter_inputs) /\ Len(Unwrap(search_args.filter_inputs)) > 0
    THEN LeavesFrom(f, Unwrap(search_args.filter_inputs), 1)
    ELSE f

\* a multi_get_value that leaves out the labels without a document
MultiGetValueSkipMissing(store, indices) ==
    LET present == SelectSeq(indices, LAMBDA index : index \in DOMAIN store)
    IN  [i \in 1..Len(present) |-> store[present[i]]]

\* ScalarStorage::multi_get_value: the document under each label, an empty
\* map where there is none
MultiGetValue(store, indices) ==
    [i \in 1..Len(indices) |-> IF indices[i] \in DOMAIN store THEN store[indices[i]]
                               ELSE EmptyMap]

\* a query that succeeded: the documents, and the result and the id filter of
\* the search behind them
Documents(docs, search_result, id_filter) ==
    [tag |-> "Ok", msg |-> "", docs |-> docs, labels |-> search_result.labels,
     distances |-> search_result.distances, id_filter |-> id_filter]

\* a query that cuts the vector to the dimension where the code checks it
QueryResultsTruncating(store, index, f, p, search_args, get_ok) ==
    LET id_filter == QueryIdFilter(f, search_args.filter_inputs)
        query == SearchQuery(SubSeq(search_args.query, 1, p.dim), id_filter,
                             search_args.hnsw_params)
    IN  {IF search_result.tag # "Ok"
         THEN Err("GetError", "unable to query vector data: " \o search_result.msg)
         ELSE IF Len(search_result.labels) = 0
         THEN Documents(<<>>, search_result, id_filter)
         ELSE IF ~get_ok
         THEN Err("GetError", "rocksdb")
         ELSE Documents(MultiGetValue(store, search_result.labels), search_result, id_filter)
         : search_result \in IndexSearch(U64Labels(index), p, query, search_args.k)}

\* VectorDatabase::query: the results the call can return; get_ok is whether
\* the store answers the multi_get
QueryResults(store, index, f, p, search_args, get_ok) ==
    IF Len(search_args.query) # p.dim
    THEN {Err("GetError", "query vector length does not match index dimension")}
    ELSE LET id_filter == QueryIdFilter(f, search_args.filter_inputs)
             query == SearchQuery(search_args.query, id_filter, search_args.hnsw_params)
         IN  {IF search_result.tag # "Ok"
              THEN Err("GetError", "unable to query vector data: " \o search_result.msg)
              ELSE IF Len(search_result.labels) = 0
              THEN Documents(<<>>, search_result, id_filter)
              ELSE IF ~get_ok
              THEN Err("GetError", "rocksdb")
              ELSE Documents(MultiGetValue(store, search_result.labels),
                             search_result, id_filter)
              : search_result \in IndexSearch(U64Labels(index), p, query, search_args.k)}

\* the rows the upserts of this specification carry: document, attributes
\* and vector
QueryRowChoices ==
    { <<Some([key |-> JStr("v1")]), Some([age |-> JInt(10)]), [c \in 1..Dim |-> 0]>>,
      <<None, Some([age |-> JInt(20)]), [c \in 1..Dim |-> 1]>>,
      <<None, Some([age |-> JInt(10)]), [c \in 1..Dim |-> 2]>> }

\* the upserts: valid requests of 1..MaxRows rows
QueryUpsertArgs ==
    UNION {
        {InsertArgs([c \in 1..(n * Dim) |-> rows[((c - 1) \div Dim) + 1][3][((c - 1) % Dim) + 1]],
                    n, Dim, [r \in 1..n |-> rows[r][1]], [r \in 1..n |-> rows[r][2]])
         : rows \in SeqOfLen(QueryRowChoices, n)}
        : n \in 1..MaxRows}

\* the filter lists and the queries
FilterInputChoices ==
    { None, Some(<<>>),
      Some(<<IntFilterInput("age", "Equal", 10)>>),
      Some(<<IntFilterInput("age", "Equal", 30)>>),
      Some(<<IntFilterInput("age", "NotEqual", 10)>>),
      Some(<<IntFilterInput("n", "Equal", 10)>>),
      Some(<<IntFilterInput("age", "Equal", 10), IntFilterInput("age", "Equal", 20)>>) }

SearchArgs ==
    {VectorSearchArgs(query, k, filter_inputs, hnsw_params) :
        query \in IndexVectors \cup {[c \in 1..(Dim + 1) |-> 1]},
        k \in {1, MaxId + 1},
        filter_inputs \in FilterInputChoices,
        hnsw_params \in HnswOptions}

\* a client calls upsert(args)
QueryUpsertCall ==
    /\ pc = "idle"
    /\ \E args \in QueryUpsertArgs :
        /\ ReadMaxId(kv) + args.data_row <= MaxId
        /\ cur' = args
    /\ pc' = "validate"
    /\ result' = Pending
    /\ UNCHANGED <<kv, vector_index, filter_index, counter, wal, ids, row, hist>>
    /\ UNCHANGED allocVars
    /\ UNCHANGED confVars

\* a client calls query(search_args) while no upsert runs (the handlers hold
\* the database lock for the whole call). A query changes nothing a later
\* query reads, so each content is queried from the state its last upsert
\* left.
Query ==
    /\ pc = "idle"
    /\ "args" \notin DOMAIN result
    /\ \E search_args \in SearchArgs, get_ok \in BOOLEAN :
        /\ \E res \in QueryResults(kv, vector_index, filter_index, params, search_args,
                                    get_ok) :
                result' = res @@ [args |-> search_args]
        /\ filter_index' = QueryLeaves(filter_index, params, search_args)
    /\ UNCHANGED <<kv, vector_index, counter, wal, pc, cur, ids, row, hist>>
    /\ UNCHANGED allocVars
    /\ UNCHANGED confVars

NextQuery ==
    \/ QueryUpsertCall
    \/ UpsertValidate
    \/ UpsertAlloc
    \/ UpsertInsertVectors
    \/ UpsertInsertDoc
    \/ UpsertInsertAttribute
    \/ Query

SpecQuery == InitIndex /\ [][NextQuery]_vars

(***************************************************************************)
(* SpecServe: the HTTP handlers of main.rs, several requests in flight on  *)
(* one database behind its lock (main.rs 50-125, 151-153).                 *)
(***************************************************************************)
\* a lock on the database that never waits
VdbLockFreeAlways(vdb) == TRUE

\* vdb.lock().await returns only while no handler holds the lock
VdbLockFree(vdb) == vdb = 0

\* the payloads of the upsert requests: n rows with the same document and
\* the same integer attribute
ServeUpsertArgs ==
    {InsertArgs([c \in 1..(n * Dim) |-> 1], n, Dim, [k \in 1..n |-> None],
                [k \in 1..n |-> Some([age |-> JInt(10)])]) : n \in 1..MaxRows}

\* the payload of the search requests
ServeSearchArgs == {VectorSearchArgs([c \in 1..Dim |-> 1], MaxId, None, None)}

\* what a query finds when it starts: the program point of the upsert on the
\* database, whether every upsert so far succeeded, and the ids of the rows,
\* the documents and the filter entries
Seen ==
    [pc |-> pc, allOk |-> hist.allOk, vectors |-> IndexIds(vector_index),
     documents |-> DocIds(kv), filters |-> FilterIds(filter_index)]

\* a request arrives and its handler gets to vdb.lock().await
HandlerReceive ==
    /\ \E t \in 1..NThreads, request \in {"upsert", "search"} :
        /\ server.handlers[t].pc = "idle"
        /\ server' = [server EXCEPT !.handlers[t] = [pc |-> "wait", request |-> request,
                                                     seen |-> <<>>]]
    /\ UNCHANGED <<kv, vector_index, filter_index, counter, wal, pc, cur, ids, row, result,
                   hist>>
    /\ UNCHANGED allocVars
    /\ UNCHANGED <<params, guards, index_mutex, workers, replay>>

\* handle_vector_upsert takes the lock and calls upsert(payload)
\* (main.rs 107-111)
HandlerLockUpsert ==
    /\ \E t \in 1..NThreads, args \in ServeUpsertArgs :
        /\ server.handlers[t].pc = "wait"
        /\ server.handlers[t].request = "upsert"
        /\ VdbLockFree(server.vdb)
        /\ ReadMaxId(kv) + args.data_row <= MaxId
        /\ server' = [server EXCEPT !.vdb = t, !.handlers[t].pc = "upsert"]
        /\ cur' = args
    /\ pc' = "validate"
    /\ result' = Pending
    /\ UNCHANGED <<kv, vector_index, filter_index, counter, wal, ids, row, hist>>
    /\ UNCHANGED allocVars
    /\ UNCHANGED <<params, guards, index_mutex, workers, replay>>

\* handle_vector_search takes the lock and runs query(search_args) to its
\* end (main.rs 72-76)
HandlerLockSearch ==
    /\ \E t \in 1..NThreads, search_args \in ServeSearchArgs, get_ok \in BOOLEAN :
        /\ server.handlers[t].pc = "wait"
        /\ server.handlers[t].request = "search"
        /\ VdbLockFree(server.vdb)
        /\ server' = [server EXCEPT !.vdb = t, !.handlers[t].pc = "search",
                                    !.handlers[t].seen = Seen]
        /\ \E res \in QueryResults(kv, vector_index, filter_index, params, search_args,
                                   get_ok) :
                result' = res
        /\ filter_index' = QueryLeaves(filter_index, params, search_args)
    /\ UNCHANGED <<kv, vector_index, counter, wal, pc, cur, ids, row, hist>>
    /\ UNCHANGED allocVars
    /\ UNCHANGED <<params, guards, index_mutex, workers, replay>>

\* the call has returned and vdb_guard goes out of scope at the end of the
\* block (main.rs 76, 111)
HandlerUnlock ==
    /\ \E t \in 1..NThreads :
        /\ server.handlers[t].pc \in {"upsert", "search"}
        /\ server.handlers[t].pc = "upsert" => pc = "idle"
        /\ server' = [server EXCEPT !.vdb = 0, !.handlers[t] = IdleHandler]
    /\ UNCHANGED <<kv, vector_index, filter_index, counter, wal, pc, cur, ids, row, result,
                   hist>>
    /\ UNCHANGED allocVars
    /\ UNCHANGED <<params, guards, index_mutex, workers, replay>>

NextServe ==
    \/ HandlerReceive
    \/ HandlerLockUpsert
    \/ HandlerLockSearch
    \/ HandlerUnlock
    \/ UpsertValidate
    \/ UpsertAlloc
    \/ UpsertInsertVectors
    \/ UpsertInsertDoc
    \/ UpsertInsertAttribute

SpecServe == Init /\ [][NextServe]_vars

(***************************************************************************)
(* Properties.                                                             *)
(***************************************************************************)
\* the store, the vector index and the filter index
dataVars == <<kv, vector_index, filter_index>>

\* what the claims call the state of the database: the id high-water-mark,
\* the documents, the vector index and the filter index
Observed ==
    <<ReadMaxId(kv), [id \in DocIds(kv) |-> kv[to_be_bytes(id)]], vector_index, filter_index>>

\* a step of the running upsert: not the step that reopens the database
UpsertStep == pc # "idle" /\ result' # Opened

\* the lengths of a request mismatch: docs, non-empty attributes or flat_data
BadLengths(args) ==
    \/ Len(args.docs) # args.data_row
    \/ (Len(args.attributes) > 0 /\ Len(args.attributes) # args.data_row)
    \/ Len(args.flat_data) # args.data_row * args.data_dim

\* C1: an upsert whose docs length, non-empty attributes length or flat_data
\* length mismatches data_row returns a PutError and leaves the scalar store
\* (with the id high-water-mark), the vector index and the filter index as
\* they were.
C1_BadLengthsRejected ==
    [][(UpsertStep /\ BadLengths(cur))
        => (pc' = "idle" /\ result'.tag = "PutError" /\ UNCHANGED dataVars)]_vars

\* C1 witness: a request with one attribute entry too many was rejected by a
\* database that holds rows.
C1_Witness ==
    /\ pc = "idle"
    /\ result = Err("PutError", "unexpected length of field attributes")
    /\ vector_index # <<>>
    /\ FilterIds(filter_index) # {}

\* C2: an upsert whose data_dim differs from the index dimension, with
\* consistent lengths, fails and changes neither the id high-water-mark, the
\* scalar store, the vector index nor the filter index.
C2_WrongDimNoChange ==
    [][(UpsertStep /\ ~BadLengths(cur) /\ cur.data_dim # Dim)
        => (UNCHANGED Observed /\ (pc' = "idle" => result'.tag \notin {"Ok", "Pending"}))]_vars

\* the WAL holds an Upsert record of the running upsert
WalHasCurrent ==
    \E k \in DOMAIN wal : wal[k].operation = "Upsert" /\ wal[k].data = cur

\* C3: in an upsert that passed validation, the id allocation, the vector
\* insert, every document put and every filter update happen only once the
\* WAL holds the record of that upsert.
C3_WalBeforeMutation ==
    [][(UpsertStep /\ Observed' # Observed) => WalHasCurrent]_vars

\* C4: when the WAL write fails (the WAL handle rejects every write), the
\* upsert returns an error and the id high-water-mark, the vector index, the
\* scalar store and the filter index are not modified.
C4_WalFailureStopsUpsert ==
    [][(UpsertStep /\ ~WalHandleWritable)
        => (UNCHANGED Observed /\ (pc' = "idle" => result'.tag # "Ok"))]_vars

C6_FilterIdsHaveDocs == FilterIds(filter_index) \subseteq DocIds(kv)

\* C6 witness: in the middle of an upsert, the first row is in the filter
\* index and the second row has no document yet.
C6_Witness ==
    /\ pc = "doc"
    /\ row = 2
    /\ ids[1] \in FilterIds(filter_index)
    /\ ids[2] \notin DocIds(kv)

\* C7: after upserts that all returned Ok on a database created empty, the
\* vector index and the scalar store each hold as many rows as the upserts
\* carried.
C7_CountsEqualRows ==
    (pc = "idle" /\ hist.allOk)
        => /\ Len(vector_index) = hist.okRows
           /\ Cardinality(DocIds(kv)) = hist.okRows

\* C7 witness: two upserts of one row each returned Ok.
C7_Witness ==
    /\ pc = "idle"
    /\ hist.allOk
    /\ hist.okRows = 2
    /\ hist.handedOut = {1, 2}
    /\ IndexIds(vector_index) = {1, 2}
    /\ result = Ok

\* C8: gen_incr_ids(n) on a store whose high-water-mark is m (0 when the key
\* is absent) returns m+1, ..., m+n in this order and stores m+n; on an empty
\* store it returns 1..n.
C8_GenIncrIds ==
    [][(pc = "alloc" /\ pc' = "insert")
        => LET m == IF KEY_ID_MAX \in DOMAIN kv THEN from_be_bytes(kv[KEY_ID_MAX]) ELSE 0
               n == cur.data_row
           IN  /\ ids' = [k \in 1..n |-> m + k]
               /\ kv'[KEY_ID_MAX] = to_be_bytes(m + n)
               /\ (kv = EmptyMap => ids' = [k \in 1..n |-> k])]_vars

\* C8 witness: an allocation of one id on a store whose high-water-mark was 1.
C8_Witness == pc = "insert" /\ ids = <<2>>

\* C9: under every interleaving of gen_incr_ids calls, the maximum a thread
\* read is still the stored one when it writes, and every id a call returns
\* exceeds every id returned by the calls that returned before: no two
\* calls overlap.
C9_AllocationsAtomic ==
    /\ [](\A t \in 1..NThreads : thr[t].pc = "put" => thr[t].max_id = ReadMaxId(kv))
    /\ [][\A t \in 1..NThreads :
            (thr[t].pc = "put" /\ thr'[t].pc = "idle" /\ result' = Ok)
                => \A k \in DOMAIN hist'.last, id \in hist.handedOut : hist'.last[k] > id]_vars

\* C9 witness: a second call has just returned ids while another thread
\* waits for the mutex.
C9_Witness ==
    /\ result = Ok
    /\ hist.last = <<2, 3>>
    /\ hist.handedOut = {1, 2, 3}
    /\ id_mutex = 0
    /\ \E t \in 1..NThreads : thr[t].pc = "lock"

\* C10: the stored high-water-mark is at least every id handed out, it never
\* decreases, and no id is handed out twice, also after failed upserts and
\* after the database is reopened.
C10_HighWaterMark ==
    /\ [](\A id \in hist.handedOut : id <= ReadMaxId(kv))
    /\ [][ReadMaxId(kv') >= ReadMaxId(kv)]_vars
    /\ [][(pc = "alloc" /\ pc' = "insert")
            => \A k \in DOMAIN ids' : ids'[k] \notin hist.handedOut]_vars

\* C10 witness: ids are handed out to an upsert issued after the database
\* was reopened (documents exist and the index is empty) .
C10_Witness ==
    /\ pc = "insert"
    /\ ids = <<2>>
    /\ DocIds(kv) = {1}
    /\ vector_index = <<>>

\* C11: when a database is reopened between two requests, replaying the WAL
\* into the fresh database gives the vector index and the filter index the
\* process held before, and replaying it once more gives them again.
C11_ReplayReproduces ==
    [][(pc = "idle" /\ result' = Opened)
        => /\ ReplayWal(FreshMem, wal) = <<vector_index, filter_index>>
           /\ ReplayWal(ReplayWal(FreshMem, wal), wal) = ReplayWal(FreshMem, wal)]_vars

\* C12: while apply_wal_record runs the upsert of a record, the id
\* high-water-mark does not change and nothing is appended to the WAL.
C12_ReplayAllocatesNothing ==
    [][(UpsertStep /\ result = Replaying)
        => (ReadMaxId(kv') = ReadMaxId(kv) /\ wal' = wal)]_vars


\* C13: when an upsert returns Ok, the document stored under the id of each
\* of its rows has "id" equal to that id and "attributes" equal to the row's
\* attribute map (an empty object when attributes is empty or the entry is
\* null), whatever the caller's document held under these two names, and
\* every other field of the caller's document is there unchanged.
C13_InjectedFields ==
    [][(UpsertStep /\ pc' = "idle" /\ result' = Ok)
        => \A i \in 1..cur.data_row :
            LET stored == kv'[to_be_bytes(ids[i])]
                caller == IF cur.docs[i] = None THEN EmptyMap ELSE cur.docs[i][1]
                attrs == IF cur.attributes = <<>> THEN EmptyMap
                         ELSE IF cur.attributes[i] = None THEN EmptyMap
                         ELSE cur.attributes[i][1]
            IN  /\ DOMAIN stored = DOMAIN caller \cup {"id", "attributes"}
                /\ stored["id"] = JInt(ids[i])
                /\ stored["attributes"] = JObj(attrs)
                /\ \A f \in DOMAIN caller \ {"id", "attributes"} :
                        stored[f] = caller[f]]_vars

\* C13 witness: an upsert returned Ok whose document brought "id" and
\* "attributes" of its own, next to a row stored without attributes.
C13_Witness ==
    /\ pc = "idle"
    /\ result = Ok
    /\ \E a, b \in DocIds(kv) :
        /\ kv[to_be_bytes(a)] = [key |-> JStr("v1"), id |-> JInt(a),
                                  attributes |-> JObj([age |-> JInt(20)])]
        /\ kv[to_be_bytes(b)] = [id |-> JInt(b), attributes |-> JObj(EmptyMap)]


\* some row of the request has an attribute whose value is no JSON integer
HasNonIntegerAttribute(args) ==
    \E i \in DOMAIN args.attributes :
        /\ args.attributes[i] # None
        /\ \E key \in DOMAIN args.attributes[i][1] :
            LET value == args.attributes[i][1][key]
            IN  value.t # "Number" \/ value.repr # "i64"

\* C14: an upsert in which some row's attribute map holds a value that is
\* no JSON integer (a string, a floating-point number, ...) does not
\* return Ok.
C14_NonIntegerAttributeFails ==
    [][(UpsertStep /\ pc' = "idle" /\ ~BadLengths(cur) /\ HasNonIntegerAttribute(cur))
        => result'.tag # "Ok"]_vars


\* C15: apply with Equal(field, t) and accumulator A returns A when the
\* field is unknown or has no bitmap for t, and A united with
\* filter[field][t] otherwise.
C15_ApplyEqual ==
    (result.tag = "Applied" /\ result.input.op = "Equal")
        => LET field == result.input.field
               t == result.input.target
           IN  IF field \notin DOMAIN filter_index
               THEN result.out = result.acc
               ELSE IF t \notin DOMAIN filter_index[field]
               THEN result.out = result.acc
               ELSE result.out = result.acc \cup filter_index[field][t]

\* C15 witness: Equal applied with a non-empty accumulator to a field whose
\* bitmap for the target holds an id the accumulator lacks.
C15_Witness ==
    /\ result.tag = "Applied"
    /\ result.input = IntFilterInput("age", "Equal", 10)
    /\ result.acc = {1}
    /\ "age" \in DOMAIN filter_index
    /\ 10 \in DOMAIN filter_index["age"]
    /\ filter_index["age"][10] = {2}
    /\ result.out = {1, 2}

\* C16: apply with NotEqual(field, t) and accumulator A returns A when the
\* field is unknown, and otherwise A united with the bitmaps of every value
\* other than t recorded for the field; it adds no id that has no value
\* recorded for the field.
C16_ApplyNotEqual ==
    (result.tag = "Applied" /\ result.input.op = "NotEqual")
        => LET field == result.input.field
               t == result.input.target
           IN  IF field \notin DOMAIN filter_index
               THEN result.out = result.acc
               ELSE /\ result.out = result.acc \cup
                        UNION {filter_index[field][v] : v \in DOMAIN filter_index[field] \ {t}}
                    /\ result.out \ result.acc \subseteq
                        UNION {filter_index[field][v] : v \in DOMAIN filter_index[field]}

\* C16 witness: NotEqual(age, 10) applied while id 1 has age 10, id 2 has
\* age 20 and the other field holds other ids.
C16_Witness ==
    /\ result.tag = "Applied"
    /\ result.input = IntFilterInput("age", "NotEqual", 10)
    /\ result.acc = {}
    /\ DOMAIN filter_index = {"age", "n"}
    /\ DOMAIN filter_index["age"] = {10, 20}
    /\ filter_index["age"][10] = {1}
    /\ filter_index["age"][20] = {2}
    /\ result.out = {2}

\* a search of the index returned, and the rows the index held
Searched == "query" \in DOMAIN result /\ result.tag = "Ok"

\* C18: for both index variants, when the search query carries an id
\* restriction, every label of the result is a member of the restriction set
C18_LabelsInRestriction ==
    (Searched /\ IsSome(result.query.id_filter))
        => \A i \in DOMAIN result.labels :
                \E e \in Unwrap(result.query.id_filter) : result.labels[i] = to_be_bytes(e)

\* the rows of the index whose label is in an id restriction
RowsIn(index, restriction) ==
    {pos \in 1..Len(index) : \E e \in restriction : index[pos].label = to_be_bytes(e)}

\* C20 as stated: a flat search with k > ntotal returns exactly ntotal
\* results, whatever the query carries; a search of either variant returns at
\* most k labels
C20_ResultLengthAnyQuery ==
    Searched =>
        /\ Len(result.labels) <= result.k
        /\ (params.index_type = "Flat" /\ result.k > Len(vector_index))
                => Len(result.labels) = Len(vector_index)

\* C20: a search of either variant returns at most k labels; a flat search
\* with k > ntotal returns exactly ntotal results when the query carries no id
\* restriction, and exactly the rows whose label is in the restriction when it
\* carries one
C20_ResultLength ==
    Searched =>
        /\ Len(result.labels) <= result.k
        /\ (params.index_type = "Flat" /\ result.k > Len(vector_index))
                => IF IsSome(result.query.id_filter)
                   THEN Len(result.labels)
                            = Cardinality(RowsIn(vector_index, Unwrap(result.query.id_filter)))
                   ELSE Len(result.labels) = Len(vector_index)

C20_Witness ==
    /\ Searched
    /\ params.index_type = "Flat"
    /\ ~IsSome(result.query.id_filter)
    /\ Len(vector_index) = MaxId
    /\ result.k = MaxId + 1
    /\ Len(result.labels) = MaxId

\* a query returned documents or an empty list
Queried == "args" \in DOMAIN result /\ result.tag = "Ok"

\* the ids a bitmap of the filter index holds, none if there is no bitmap
BitmapOf(f, field, value) ==
    IF field \in DOMAIN f /\ value \in DOMAIN f[field] THEN f[field][value] ELSE {}

\* C17: for any query that carries an Equal(f, v) filter, the ids of the
\* returned documents are a subset of filter[f][v]
C17_EqualFilterSubset ==
    (Queried /\ IsSome(result.args.filter_inputs))
        => \A n \in DOMAIN Unwrap(result.args.filter_inputs) :
            LET input == Unwrap(result.args.filter_inputs)[n]
            IN  input.op = "Equal"
                    => \A i \in DOMAIN result.labels :
                        \E id \in BitmapOf(filter_index, input.field, input.target) :
                            result.labels[i] = to_be_bytes(id)

\* a query was answered while the index held no row
QueriedEmpty == "args" \in DOMAIN result /\ vector_index = <<>>

\* the query came back with no document, from a search that found nothing
EmptyAnswer ==
    /\ result.tag = "Ok"
    /\ result.docs = <<>>
    /\ result.labels = <<>>
    /\ result.distances = <<>>

\* C19 as stated: any query on a database into whose index nothing has been
\* inserted, for either index variant and any query options, succeeds with an
\* empty answer
C19_EmptyIndexAnyQuery == QueriedEmpty => EmptyAnswer

\* C19: a query on a database into whose index nothing has been inserted
\* succeeds with empty distances, labels and documents, for either index
\* variant, provided its vector has the database's dimension and, on an HNSW
\* index, it carries ef_search; otherwise it returns a GetError
C19_EmptyIndexEmptyAnswer ==
    QueriedEmpty =>
        IF /\ Len(result.args.query) = params.dim
           /\ (params.index_type = "Hnsw" => IsSome(result.args.hnsw_params))
        THEN EmptyAnswer
        ELSE result.tag = "GetError"

C19_Witness ==
    /\ QueriedEmpty
    /\ EmptyAnswer
    /\ params.index_type = "Hnsw"
    /\ IsSome(result.args.filter_inputs)
    /\ result.args.k = MaxId + 1

\* the positions of the index rows whose vector is the query's
RowsEqualTo(index, query) == {pos \in 1..Len(index) : index[pos].vec = query}

\* a query of a flat database for one of the inserted rows, with k = 1 and no
\* filter, after upserts that all succeeded
RoundTrip ==
    /\ Queried
    /\ params.index_type = "Flat"
    /\ hist.allOk
    /\ result.args.k = 1
    /\ ~IsSome(result.args.filter_inputs)
    /\ RowsEqualTo(vector_index, result.args.query) # {}

\* C21 as stated: the query returns exactly one document, the document of the
\* id assigned to the row whose vector it carries, under L2 and under IP
C21_RoundTripReturnsTheRow ==
    RoundTrip =>
        /\ Len(result.docs) = 1
        /\ \A pos \in RowsEqualTo(vector_index, result.args.query) :
            /\ result.labels[1] = to_be_bytes(vector_index[pos].label)
            /\ result.docs[1]["id"] = JInt(vector_index[pos].label)

\* C21: the query returns exactly one document, the stored document of an
\* indexed row nearest to the query: under L2 a row with the queried vector
\* (the queried row when no other row has its vector), under IP a row whose
\* inner product with the query is the largest, which need not be the
\* queried row
C21_RoundTripReturnsNearest ==
    RoundTrip =>
        /\ Len(result.docs) = 1
        /\ Len(result.labels) = 1
        /\ \E pos \in 1..Len(vector_index) :
            /\ result.labels[1] = to_be_bytes(vector_index[pos].label)
            /\ result.docs[1] = kv[to_be_bytes(vector_index[pos].label)]
            /\ result.docs[1]["id"] = JInt(vector_index[pos].label)
            /\ IF params.metric_type = "L2"
               THEN pos \in RowsEqualTo(vector_index, result.args.query)
               ELSE \A other \in 1..Len(vector_index) :
                        Dot(result.args.query, vector_index[pos].vec)
                            >= Dot(result.args.query, vector_index[other].vec)

C21_Witness ==
    /\ RoundTrip
    /\ params.metric_type = "IP"
    /\ Len(vector_index) = MaxId
    /\ Cardinality(RowsEqualTo(vector_index, result.args.query)) = 1
    /\ \A pos \in RowsEqualTo(vector_index, result.args.query) :
        /\ result.labels[1] = to_be_bytes(vector_index[pos].label)
        /\ "key" \in DOMAIN result.docs[1]

C23_WrongLengthQuery ==
    [][("args" \in DOMAIN result' /\ Len(result'.args.query) # params.dim)
            => /\ result'.tag = "GetError"
               /\ result'.msg = "query vector length does not match index dimension"
               /\ UNCHANGED <<kv, vector_index, filter_index, counter, wal, params>>]_vars

C23_Witness ==
    /\ "args" \in DOMAIN result
    /\ Len(result.args.query) # params.dim
    /\ result.tag = "GetError"
    /\ params.index_type = "Hnsw"
    /\ ~IsSome(result.args.hnsw_params)
    /\ IsSome(result.args.filter_inputs)
    /\ Len(vector_index) = MaxId

\* a query whose vector has the database's dimension was answered
QueriedInDim == "args" \in DOMAIN result /\ Len(result.args.query) = params.dim

\* the search the answered query ran
SearchOfQuery ==
    IndexSearch(U64Labels(vector_index), params,
                SearchQuery(result.args.query,
                            QueryIdFilter(filter_index, result.args.filter_inputs),
                            result.args.hnsw_params),
                result.args.k)

\* C24: searching an HNSW index with a query that carries no ef_search option
\* returns an error, QueryError at the index and GetError at the facade,
\* whatever the index holds; a flat index never fails for a missing ef_search
C24_HnswNeedsEfSearch ==
    QueriedInDim =>
        /\ (params.index_type = "Hnsw" /\ ~IsSome(result.args.hnsw_params))
            => /\ SearchOfQuery = {[tag |-> "QueryError", msg |-> "HNSW search option is not set"]}
               /\ result.tag = "GetError"
               /\ result.msg = "unable to query vector data: HNSW search option is not set"
        /\ (params.index_type = "Hnsw" /\ IsSome(result.args.hnsw_params))
            => \A search_result \in SearchOfQuery : search_result.tag = "Ok"
        /\ params.index_type = "Flat"
            => /\ \A search_result \in SearchOfQuery : search_result.tag = "Ok"
               /\ result.tag = "Ok" \/ result.msg = "rocksdb"

C24_Witness ==
    /\ QueriedInDim
    /\ params.index_type = "Hnsw"
    /\ ~IsSome(result.args.hnsw_params)
    /\ result.tag = "GetError"
    /\ Len(vector_index) = MaxId
    /\ result.args.filter_inputs = None

\* C25: a successful query returns as many documents as the vector search
\* returned labels; the i-th is the document stored under the i-th label, or
\* an empty object when no document is stored under it
C25_DocumentsFollowLabels ==
    Queried =>
        /\ Len(result.docs) = Len(result.labels)
        /\ \A i \in 1..Len(result.labels) :
            result.docs[i] = IF result.labels[i] \in DOMAIN kv THEN kv[result.labels[i]]
                             ELSE EmptyMap
        /\ \E search_result \in SearchOfQuery : search_result.labels = result.labels

C25_Witness ==
    /\ Queried
    /\ Len(result.labels) = 2
    /\ result.labels[1] # result.labels[2]
    /\ \E i, j \in 1..2 : result.docs[i] = EmptyMap /\ "id" \in DOMAIN result.docs[j]

\* C26: the rollback closure of a RollbackGuard runs exactly once if the
\* guard is dropped without commit() having been called, and never if
\* commit() was called, on every path; it does not run while the guard lives
C26_RollbackOnceUnlessCommitted ==
    \A g \in 1..MaxGuards :
        /\ guards[g].phase = "live" => guards[g].runs = 0
        /\ (guards[g].phase = "dropped" /\ ~guards[g].commit_called) => guards[g].runs = 1
        /\ (guards[g].phase = "dropped" /\ guards[g].commit_called) => guards[g].runs = 0

C26_Witness ==
    \E g1, g2, g3 \in 1..MaxGuards :
        /\ guards[g1].path = "commit" /\ guards[g1].runs = 0
        /\ guards[g2].path = "error" /\ guards[g2].runs = 1
        /\ guards[g3].path = "early return" /\ guards[g3].runs = 1

\* C27: when the future of an upsert is dropped at a suspension point, the
\* blocking step already started runs to its end and the database is not left
\* torn: unless an earlier upsert failed after its vector insert, every id of
\* the vector index and every id of the filter index has its document
C27_DroppedUpsertNotTorn ==
    (result = Dropped /\ ~hist.lateFail)
        => /\ IndexIds(vector_index) \subseteq DocIds(kv)
           /\ FilterIds(filter_index) \subseteq DocIds(kv)

\* the threads that are executing an insert or a search on the index
OnTheIndex == {w \in 1..NThreads : workers[w].pc \in {"insert", "search", "searched"}}

\* C28: at every moment at most one insert or search is executing on the
\* vector index, and it holds the index mutex; no search reads the index
\* while a batch insert is only partly applied
C28_OneAtATimeOnTheIndex ==
    /\ Cardinality(OnTheIndex) <= 1
    /\ \A w \in OnTheIndex : index_mutex = w
    /\ \A w \in 1..NThreads :
        workers[w].pc \in {"search", "searched"}
            => \A other \in 1..NThreads : workers[other].pc = "insert" => other = w

C28_Witness ==
    \E w, other \in 1..NThreads :
        /\ workers[w].pc = "insert"
        /\ workers[w].pending > 0
        /\ Len(vector_index) > 0
        /\ workers[other].pc = "lock"
        /\ workers[other].op = "search"

\* the ids one predicate selects
Selected(f, input) ==
    IF input.field \notin DOMAIN f THEN {}
    ELSE IF input.op = "Equal" THEN BitmapOf(f, input.field, input.target)
    ELSE UNION {f[input.field][v] : v \in DOMAIN f[input.field] \ {input.target}}

\* the predicates in the opposite order
Reversed(filter_inputs) ==
    [i \in 1..Len(filter_inputs) |-> filter_inputs[Len(filter_inputs) + 1 - i]]

\* a query with a non-empty filter list returned documents or an empty list
QueriedWithFilters ==
    /\ Queried
    /\ IsSome(result.args.filter_inputs)
    /\ Len(Unwrap(result.args.filter_inputs)) > 0

\* C29: the id restriction of a query with filter predicates is the union of
\* the id sets the predicates select, and neither the restriction nor the
\* answers of the query depend on the order of the predicates
C29_RestrictionIsUnion ==
    QueriedWithFilters =>
        LET filter_inputs == Unwrap(result.args.filter_inputs)
            swapped == [result.args EXCEPT !.filter_inputs = Some(Reversed(filter_inputs))]
        IN  /\ result.id_filter
                = Some(UNION {Selected(filter_index, filter_inputs[i]) :
                                i \in 1..Len(filter_inputs)})
            /\ QueryIdFilter(filter_index, swapped.filter_inputs) = result.id_filter
            /\ QueryResults(kv, vector_index, filter_index, params, swapped, TRUE)
                = QueryResults(kv, vector_index, filter_index, params, result.args, TRUE)

C29_Witness ==
    /\ QueriedWithFilters
    /\ Len(Unwrap(result.args.filter_inputs)) = 2
    /\ Selected(filter_index, Unwrap(result.args.filter_inputs)[1]) # {}
    /\ Selected(filter_index, Unwrap(result.args.filter_inputs)[2]) # {}
    /\ Selected(filter_index, Unwrap(result.args.filter_inputs)[1])
            # Selected(filter_index, Unwrap(result.args.filter_inputs)[2])
    /\ Len(result.docs) = 2

\* a query whose filter list is present and empty was answered
QueriedWithEmptyList == "args" \in DOMAIN result /\ result.args.filter_inputs = Some(<<>>)

\* C30: a query whose filter_inputs is present but empty runs with no id
\* restriction and is answered as the same query without filter_inputs is
C30_EmptyListIsNoFilter ==
    QueriedWithEmptyList =>
        LET absent == [result.args EXCEPT !.filter_inputs = None]
        IN  /\ QueryIdFilter(filter_index, result.args.filter_inputs) = None
            /\ result.tag = "Ok" => result.id_filter = None
            /\ QueryResults(kv, vector_index, filter_index, params, result.args, TRUE)
                    = QueryResults(kv, vector_index, filter_index, params, absent, TRUE)
            /\ \E res \in QueryResults(kv, vector_index, filter_index, params, absent,
                                        result.msg # "rocksdb") :
                    result = res @@ [args |-> result.args]

C30_Witness ==
    /\ QueriedWithEmptyList
    /\ result.tag = "Ok"
    /\ FilterIds(filter_index) # {}
    /\ Len(vector_index) = MaxId
    /\ Len(result.docs) = MaxId

(***************************************************************************)
(* C31: converting a raw exact-search result gives distances and labels of *)
(* equal length, and wherever the invalid labels stand in the raw label    *)
(* list, the distances kept are those at the positions of the valid        *)
(* labels, in the same order.                                              *)
(***************************************************************************)
\* the positions of the valid labels of a raw result, in order
ValidPositions(raw) ==
    SelectSeq([i \in 1..Len(raw.labels) |-> i], LAMBDA i : raw.labels[i] # NoLabel)

Converted == "labels" \in DOMAIN result /\ "labels" \in DOMAIN cur

C31_KeptDistancesFollowValidLabels ==
    Converted =>
        LET at == ValidPositions(cur)
        IN  /\ Len(result.distances) = Len(result.labels)
            /\ result.labels = [j \in 1..Len(at) |-> cur.labels[at[j]]]
            /\ result.distances = [j \in 1..Len(at) |-> cur.distances[at[j]]]

(***************************************************************************)
(* C32: when the vector insert of an upsert fails, the upsert returns a    *)
(* PutError, the ids allocated for it stay consumed (the id                *)
(* high-water-mark stays advanced by data_row), and no document is written *)
(* to the scalar store and no filter-index entry is added.                 *)
(***************************************************************************)
\* the step in which insert_vectors fails and the upsert returns
VectorInsertFails == pc = "insert" /\ UpsertStep /\ pc' = "idle" /\ result' # Ok

C32_FailedVectorInsertBurnsIds ==
    [][VectorInsertFails
        => /\ result'.tag = "PutError"
           /\ ids = GenIds(ReadMaxId(kv') - cur.data_row, cur.data_row)
           /\ \A k \in DOMAIN ids :
                /\ ids[k] <= ReadMaxId(kv')
                /\ ids[k] \notin DocIds(kv')
                /\ ids[k] \notin FilterIds(filter_index')
           /\ kv' = kv
           /\ filter_index' = filter_index]_vars

\* C32 witness: an upsert of MaxId rows has failed in its vector insert: the
\* high-water-mark is MaxId and the database holds no row, no document and
\* no filter entry.
C32_Witness ==
    /\ pc = "idle"
    /\ result = Err("PutError", "unable to upsert vector data")
    /\ ReadMaxId(kv) = MaxId
    /\ hist.handedOut = 1..MaxId
    /\ DocIds(kv) = {}
    /\ vector_index = <<>>
    /\ filter_index = EmptyMap

(***************************************************************************)
(* C33: during recovery the first WAL line that cannot be read or          *)
(* deserialized makes recover_database return an error and stop: no record *)
(* after the faulty line is applied, and the records before it have been   *)
(* applied in file order, oldest first.                                    *)
(***************************************************************************)
\* the position of the first line of the file that is not a record, one past
\* the end when every line is one
FirstFaulty(lines) ==
    LET bad == {k \in 1..Len(lines) : lines[k].text # "record"}
    IN  IF bad = {} THEN Len(lines) + 1 ELSE CHOOSE b \in bad : \A c \in bad : b <= c

\* the records of lines 1..n of a file of records
RecordsUpTo(lines, n) ==
    [k \in 1..n |-> [log_id |-> lines[k].log_id, operation |-> lines[k].operation,
                     data |-> NoArgs]]

C33_RecoveryStopsAtFirstFaultyLine ==
    LET first == FirstFaulty(wal)
        n == Len(replay.applied)
    IN  /\ n < first
        /\ replay.applied = RecordsUpTo(wal, n)
        /\ (replay.phase = "done" /\ result.msg # "Failed to get WAL log iterator")
            => /\ replay.applied = RecordsUpTo(wal, first - 1)
               /\ IF first <= Len(wal)
                  THEN result = Err("CreateError", "Failed to read WAL log record")
                  ELSE result = Recovered

\* C33 witness: recovery has returned its error at a faulty line that has a
\* record before it and a record after it.
C33_Witness ==
    /\ replay.phase = "done"
    /\ result = Err("CreateError", "Failed to read WAL log record")
    /\ Len(replay.applied) >= 1
    /\ \E k \in 1..Len(wal) : k > FirstFaulty(wal) /\ wal[k].text = "record"

(***************************************************************************)
(* C34: when a database is opened, the log-id counter starts at the 8-byte *)
(* big-endian u64 stored under the WAL high-water key, or at 0 when the    *)
(* key is absent, and the records built afterwards continue from there:    *)
(* the counter of the reopened database is past every log id a record was  *)
(* given before, so that no log id is given out again.                     *)
(***************************************************************************)
\* the value the claim reads under the WAL high-water key
StoredLogId(store) ==
    LET bytes == Get(store, NAMESPACE_WALS \o WAL_ID_KEY)
    IN  IF IsSome(bytes) THEN from_be_bytes(Unwrap(bytes)) ELSE 0

C34_LogIdsContinueAfterReopen ==
    [][result' = Opened
        => /\ counter' = StoredLogId(kv')
           /\ counter' >= counter]_vars

(***************************************************************************)
(* C35: once a document is stored under an id no later upsert overwrites   *)
(* or removes it, and once an id is in a filter bitmap no later operation  *)
(* of the running database removes it: across any sequence of upserts the  *)
(* stored documents and every filter bitmap only grow.                     *)
(***************************************************************************)
\* every bitmap of f is still there in g and holds at least the ids it held
BitmapsGrow(f, g) ==
    \A field \in DOMAIN f :
        /\ field \in DOMAIN g
        /\ \A value \in DOMAIN f[field] :
            /\ value \in DOMAIN g[field]
            /\ f[field][value] \subseteq g[field][value]

C35_DocumentsAndBitmapsOnlyGrow ==
    [][/\ kv' # kv
            => \A key \in DOMAIN kv :
                    Len(key) = 8 => (key \in DOMAIN kv' /\ kv'[key] = kv[key])
       /\ (result' # Opened /\ filter_index' # filter_index)
            => BitmapsGrow(filter_index, filter_index')]_vars

\* C35 witness: a later upsert has stored its document under id 2 and is
\* about to enter its attributes, while the document and the filter entries
\* of id 1, stored by an earlier upsert, are in place.
C35_Witness ==
    /\ pc = "attr"
    /\ ids = <<2>>
    /\ DocIds(kv) = {1, 2}
    /\ 1 \in FilterIds(filter_index)
    /\ \E field \in DOMAIN AttrMapOf(cur, row) :
        /\ field \in DOMAIN filter_index
        /\ \E value \in DOMAIN filter_index[field] :
            AttrMapOf(cur, row)[field] = JInt(value) /\ 1 \in filter_index[field][value]

(***************************************************************************)
(* C36: IdFilter.filter(id) is true exactly for the ids that were added to *)
(* the filter and false for every other id, for all 64-bit ids, those of   *)
(* 2^32 and above included.                                                *)
(***************************************************************************)
C36_FilterExactOn64BitIds ==
    "contains" \in DOMAIN result => (result.contains <=> result.id \in result.added)

(***************************************************************************)
(* C37: a query, whether it succeeds or fails, leaves the id               *)
(* high-water-mark, the vector index, the stored documents, the filter     *)
(* index and the WAL as they were; IntFilterIndex::apply leaves the filter *)
(* index as it was.                                                        *)
(***************************************************************************)
\* the step in which a query returns
QueryReturns == "args" \in DOMAIN result' /\ "args" \notin DOMAIN result

C37_QueryChangesNothing ==
    [][QueryReturns
        => /\ ReadMaxId(kv') = ReadMaxId(kv)
           /\ vector_index' = vector_index
           /\ kv' = kv
           /\ filter_index' = filter_index
           /\ wal' = wal
           /\ counter' = counter
           /\ \A i \in 1..(IF IsSome(result'.args.filter_inputs)
                           THEN Len(Unwrap(result'.args.filter_inputs)) ELSE 0) :
                FilterApplyLeaves(filter_index, Unwrap(result'.args.filter_inputs)[i])
                    = filter_index]_vars

\* C37 witness: a query with a non-empty filter list has returned documents
\* from a full index whose rows have filter entries.
C37_Witness ==
    /\ "args" \in DOMAIN result
    /\ result.tag = "Ok"
    /\ IsSome(result.args.filter_inputs)
    /\ Len(Unwrap(result.args.filter_inputs)) > 0
    /\ Len(result.docs) >= 1
    /\ Len(vector_index) = MaxId
    /\ FilterIds(filter_index) # {}

(***************************************************************************)
(* C38: requests arriving through the HTTP handlers are serialized by the  *)
(* lock around the database: at most one handler is inside upsert or query *)
(* and it holds the lock, an upsert runs from its validation to its last   *)
(* step with no other upsert or query starting, and a query finds no       *)
(* upsert under way: as long as no upsert has failed, the rows it finds    *)
(* all have their documents and their filter entries.                      *)
(***************************************************************************)
\* the handlers that are inside a call on the database
InsideVdb == {t \in 1..NThreads : server.handlers[t].pc \in {"upsert", "search"}}

QueriedSelectingNothing ==
    /\ "args" \in DOMAIN result
    /\ IsSome(result.args.filter_inputs)
    /\ Len(Unwrap(result.args.filter_inputs)) > 0
    /\ \A i \in 1..Len(Unwrap(result.args.filter_inputs)) :
        Selected(filter_index, Unwrap(result.args.filter_inputs)[i]) = {}

C39_NoIdSelectedNoDocument ==
    QueriedSelectingNothing =>
        /\ QueryIdFilter(filter_index, result.args.filter_inputs) = Some({})
        /\ IF /\ Len(result.args.query) = params.dim
              /\ (params.index_type = "Hnsw" => IsSome(result.args.hnsw_params))
           THEN /\ EmptyAnswer
                /\ result.id_filter = Some({})
           ELSE result.tag = "GetError"

\* C39 witness: on a full index whose rows all have the attribute value 10, a
\* query for the rows whose value is not 10 returned no document.
C39_Witness ==
    /\ QueriedSelectingNothing
    /\ EmptyAnswer
    /\ Unwrap(result.args.filter_inputs)[1].op = "NotEqual"
    /\ Len(vector_index) = MaxId
    /\ FilterIds(filter_index) = IndexIds(vector_index)

(***************************************************************************)
(* C40: when an upsert of n rows fails at row i because of a document put  *)
(* error or an unsupported attribute value, the state it leaves is partial *)
(* and is not rolled back: all n vectors are in the vector index, the rows *)
(* before i have their documents, row i has its document when the failure  *)
(* is in its attributes and none when the put failed, the rows after i     *)
(* have no document and no filter entry, and the id high-water-mark stays  *)
(* advanced by n.                                                          *)
(***************************************************************************)
\* the step in which insert_doc or insert_attribute of row `row` fails and
\* the upsert returns
RowFails == pc \in {"doc", "attr"} /\ UpsertStep /\ pc' = "idle" /\ result' # Ok

C40_FailureAtRowLeavesPartialState ==
    [][RowFails
        => LET n == cur.data_row
               i == row
           IN  /\ result'.tag = "PutError"
               /\ ids = GenIds(ReadMaxId(kv') - n, n)
               /\ vector_index' = vector_index
               /\ \A k \in 1..n :
                    \E pos \in 1..Len(vector_index') :
                        /\ vector_index'[pos].label = ids[k]
                        /\ vector_index'[pos].vec
                               = FromShapeVec(n, cur.data_dim, cur.flat_data)[k]
               /\ \A k \in 1..(i - 1) : ids[k] \in DocIds(kv')
               /\ (pc = "attr") <=> (ids[i] \in DocIds(kv'))
               /\ \A k \in (i + 1)..n :
                    /\ ids[k] \notin DocIds(kv')
                    /\ ids[k] \notin FilterIds(filter_index')
               /\ \A key \in DOMAIN kv : key \in DOMAIN kv' /\ (Len(key) = 8 => kv'[key] = kv[key])
               /\ BitmapsGrow(filter_index, filter_index')]_vars

\* C40 witness: an upsert of two rows has failed in the attributes of its
\* first row: both vectors are in the index, only the first row has a
\* document, and the high-water-mark is 2.
C40_Witness ==
    /\ pc = "idle"
    /\ result = Err("PutError", "unsupported attribute type for key")
    /\ IndexIds(vector_index) = {1, 2}
    /\ DocIds(kv) = {1}
    /\ 2 \notin FilterIds(filter_index)
    /\ ReadMaxId(kv) = 2

=============================================================================
